---- MODULE Spec2Model ----
(***************************************************************************)
(* Rule-driven JSON projection engine (service/models.py).                 *)
(*                                                                         *)
(* JSONManifest flattens a document and matches the flat pairs against a   *)
(* rule list; JSONFactory writes the manifest entries into a nested        *)
(* record (plain paths first, query paths second) and applies the filters. *)
(*                                                                         *)
(* Python strings are sequences of one-character strings, so that the      *)
(* substring tests, replacements, splits and regular expressions of the    *)
(* source are computed character by character.  Python values are tagged   *)
(* records [t, v]; a dict is the sequence of its (key, value) items in     *)
(* insertion order.                                                        *)
(***************************************************************************)
EXTENDS Integers, Sequences, FiniteSets, TLC

VARIABLES
    data,          \* JSONManifest._data
    rules,         \* JSONManifest._rules
    fdata,         \* JSONManifest._fdata : the flat (path, value) items
    filters,       \* JSONManifest._filters[FilterType.UNIQUE]
    pc,            \* position of the running call
    ri,            \* index of the rule JSONManifest.__iter__ handles next
    target_track,  \* __iter__ local: dict target list -> cursor
    target_list,   \* __iter__ local: Unbound until an iterate rule matches
    emitted,       \* the entries __iter__ has yielded so far
    queries,       \* get_projection local: the deferred query entries
    record,        \* get_projection local: the projection being built
    qi,            \* number of deferred entries already written
    fi,            \* number of filter paths already applied
    err,           \* the exception that ended the call, or "none"
    log,           \* the calls of the writer made so far, in order
    start          \* the record the writer calls started from

vars == <<data, rules, fdata, filters, pc, ri, target_track, target_list,
          emitted, queries, record, qi, fi, err, log, start>>

(***************************************************************************)
(* Strings                                                                 *)
(***************************************************************************)
Digits == <<"0", "1", "2", "3", "4", "5", "6", "7", "8", "9">>

Letters == {"a", "b", "c", "d", "e", "f", "g", "h", "i", "j", "k", "l", "m",
            "n", "o", "p", "q", "r", "s", "t", "u", "v", "w", "x", "y", "z",
            "A", "B", "C", "D", "E", "F", "G", "H", "I", "J", "K", "L", "M",
            "N", "O", "P", "Q", "R", "S", "T", "U", "V", "W", "X", "Y", "Z"}

IsDigit(c) == \E i \in 1..10 : Digits[i] = c

DigitVal(c) == (CHOOSE i \in 1..10 : Digits[i] = c) - 1

\* the regex class \w
IsWord(c) == c \in Letters \/ IsDigit(c) \/ c = "_"

\* the regex class \s, and the characters str.strip() removes
IsSpace(c) == c = " "

\* str(n) for a natural number
RECURSIVE IntToStr(_)
IntToStr(n) ==
    IF n < 10 THEN <<Digits[n + 1]>>
    ELSE IntToStr(n \div 10) \o <<Digits[(n % 10) + 1]>>

\* int(s) for a string of decimal digits
RECURSIVE StrToInt(_)
StrToInt(s) ==
    IF Len(s) = 0 THEN 0
    ELSE 10 * StrToInt(SubSeq(s, 1, Len(s) - 1)) + DigitVal(s[Len(s)])

\* s[i:].startswith(sub), i counted from 1
StartsWithAt(s, sub, i) ==
    /\ i + Len(sub) - 1 <= Len(s)
    /\ SubSeq(s, i, i + Len(sub) - 1) = sub

\* position of the first occurrence of sub in s at or after from; 0 if none
Find(s, sub, from) ==
    LET hits == {i \in from..(Len(s) + 1) : StartsWithAt(s, sub, i)}
    IN  IF hits = {} THEN 0 ELSE CHOOSE i \in hits : \A j \in hits : i <= j

\* sub in s
Contains(sub, s) == Find(s, sub, 1) # 0

\* s.replace(old, '')
RECURSIVE Remove(_, _)
\* s without the occurrence of old at i, and without the later ones
RemoveAt(s, old, i) ==
    IF i = 0 THEN s
    ELSE SubSeq(s, 1, i - 1) \o Remove(SubSeq(s, i + Len(old), Len(s)), old)

Remove(s, old) == IF old = <<>> THEN s ELSE RemoveAt(s, old, Find(s, old, 1))

\* s.split(sep), sep not empty
RECURSIVE Split(_, _)
\* s split at the occurrence of sep at i, and at the later ones
SplitAt(s, sep, i) ==
    IF i = 0 THEN <<s>>
    ELSE <<SubSeq(s, 1, i - 1)>> \o Split(SubSeq(s, i + Len(sep), Len(s)), sep)

Split(s, sep) == SplitAt(s, sep, Find(s, sep, 1))

\* sep.join(parts)
RECURSIVE Join(_, _)
Join(parts, sep) ==
    IF Len(parts) = 0 THEN <<>>
    ELSE IF Len(parts) = 1 THEN parts[1]
    ELSE parts[1] \o sep \o Join(Tail(parts), sep)

\* s.strip()
RECURSIVE Strip(_)
Strip(s) ==
    IF Len(s) = 0 THEN s
    ELSE IF IsSpace(s[1]) THEN Strip(Tail(s))
    ELSE IF IsSpace(s[Len(s)]) THEN Strip(SubSeq(s, 1, Len(s) - 1))
    ELSE s

\* end of the longest run of characters of class cls starting at i
\* (i - 1 when s[i] is not in the class)
RunEnd(s, i, cls(_)) ==
    LET stops == {j \in i..Len(s) : ~cls(s[j])}
    IN  IF stops = {} THEN Len(s)
        ELSE (CHOOSE j \in stops : \A k \in stops : j <= k) - 1

(***************************************************************************)
(* Python values                                                           *)
(***************************************************************************)
PyStr(s) == [t |-> "str", v |-> s]

PyInt(n) == [t |-> "int", v |-> IntToStr(n)]

PyBool(b) == [t |-> "bool", v |-> IF b THEN <<"T">> ELSE <<"F">>]

PyNone == [t |-> "none", v |-> <<>>]

PyDict(items) == [t |-> "dict", v |-> items]

PyList(elems) == [t |-> "list", v |-> elems]

EmptyDict == PyDict(<<>>)

EmptyList == PyList(<<>>)

\* the key None, which insert_value writes for a segment without an index
NoneKey == <<"None">>

\* key in d
DictHas(d, key) == \E i \in 1..Len(d.v) : d.v[i][1] = key

\* d[key]
DictGet(d, key) == d.v[CHOOSE i \in 1..Len(d.v) : d.v[i][1] = key][2]

\* d.get(key, default)
DictGetDefault(d, key, default) ==
    IF DictHas(d, key) THEN DictGet(d, key) ELSE default

\* d[key] = value : an existing key keeps its position, a new one is last
DictSet(d, key, value) ==
    IF DictHas(d, key)
    THEN PyDict([i \in 1..Len(d.v) |->
                  IF d.v[i][1] = key THEN <<key, value>> ELSE d.v[i]])
    ELSE PyDict(Append(d.v, <<key, value>>))

\* dict(pairs)
RECURSIVE DictFromPairs(_)
DictFromPairs(pairs) ==
    IF Len(pairs) = 0 THEN EmptyDict
    ELSE DictSet(DictFromPairs(SubSeq(pairs, 1, Len(pairs) - 1)),
                 pairs[Len(pairs)][1], pairs[Len(pairs)][2])

\* a == b for Python values: dicts compare without regard to item order
RECURSIVE PyEq(_, _)
PyEq(a, b) ==
    IF a.t # b.t THEN FALSE
    ELSE IF a.t = "dict"
    THEN /\ Len(a.v) = Len(b.v)
         /\ \A i \in 1..Len(a.v) :
                /\ DictHas(b, a.v[i][1])
                /\ PyEq(a.v[i][2], DictGet(b, a.v[i][1]))
    ELSE IF a.t = "list"
    THEN /\ Len(a.v) = Len(b.v)
         /\ \A i \in 1..Len(a.v) : PyEq(a.v[i], b.v[i])
    ELSE a.v = b.v

(***************************************************************************)
(* JSONManifest.flatten                                                    *)
(***************************************************************************)
RECURSIVE iter_child(_, _), iter_child_items(_, _, _)
\* iter_child yielding only the leaves that are not null
iter_child_not_null(cdata, keys) ==
    IF cdata.t \in {"dict", "list"} THEN iter_child_items(cdata, keys, 1)
    ELSE IF cdata = PyNone THEN <<>>
    ELSE <<<<Join(keys, <<".">>), cdata>>>>

iter_child(cdata, keys) ==
    IF cdata.t \in {"dict", "list"} THEN iter_child_items(cdata, keys, 1)
    ELSE <<<<Join(keys, <<".">>), cdata>>>>

iter_child_items(cdata, keys, i) ==
    IF i > Len(cdata.v) THEN <<>>
    ELSE IF cdata.t = "dict"
    THEN iter_child(cdata.v[i][2], Append(keys, cdata.v[i][1]))
             \o iter_child_items(cdata, keys, i + 1)
    ELSE LET key == keys[Len(keys)] \o <<"[">> \o IntToStr(i - 1) \o <<"]">>
         IN  iter_child(cdata.v[i],
                        Append(SubSeq(keys, 1, Len(keys) - 1), key))
                 \o iter_child_items(cdata, keys, i + 1)

flatten(d) == iter_child(d, <<<<"$">>>>)

\* self._fdata = dict(self.flatten(self._data)), as its items
FlatData(d) == DictFromPairs(flatten(d)).v

(***************************************************************************)
(* JSONManifest.find_filters                                               *)
(***************************************************************************)
RECURSIVE find_filters(_)
find_filters(rs) ==
    IF Len(rs) = 0 THEN <<>>
    ELSE LET r == rs[Len(rs)]
             before == find_filters(SubSeq(rs, 1, Len(rs) - 1))
         IN  IF "filter_unique" \in DOMAIN r
             THEN Append(before, r.filter_unique)
             ELSE before

(***************************************************************************)
(* JSONManifest.__iter__                                                   *)
(*                                                                         *)
(* An entry is the yielded (path, value) pair; the fields rule, kind and   *)
(* src record which rule and which flat path produced it.                  *)
(***************************************************************************)
Entry(i, kind, src, path, value) ==
    [rule |-> i, kind |-> kind, src |-> src, path |-> path, value |-> value]

\* the value target_list has before its first assignment
Unbound == <<"unbound">>

\* SourceYields with "rule.get('source') in path" for the comparison
SourceYieldsSubstring(rule, i, fd) ==
    LET hits == SelectSeq(fd, LAMBDA item : Contains(rule.source, item[1]))
    IN  [k \in 1..Len(hits) |->
            Entry(i, "source", hits[k][1], rule.target, hits[k][2])]

\* the source branch of rule i: one entry for each item of fdata whose
\* path equals the rule's source
SourceYields(rule, i, fd) ==
    LET hits == SelectSeq(fd, LAMBDA item : rule.source = item[1])
    IN  [k \in 1..Len(hits) |->
            Entry(i, "source", hits[k][1], rule.target, hits[k][2])]

\* hash/equality class of a scalar as a set element: True == 1, False == 0
PyKey(x) ==
    IF x.t = "bool" THEN [t |-> "int", v |-> IF x.v = <<"T">> THEN <<"1">>
                                                         ELSE <<"0">>]
    ELSE x

\* check_match_values, for the flat items fd[n..] and the candidates
\* cands[m..] of item n
RECURSIVE check_match_values(_, _, _, _)
check_match_values(cands, fd, n, m) ==
    IF n > Len(fd) THEN <<>>
    ELSE IF m > Len(cands) THEN check_match_values(cands, fd, n + 1, 1)
    ELSE LET rest == check_match_values(cands, fd, n, m + 1)
         IN  IF Contains(cands[m], fd[n][1])
             THEN <<<<Remove(fd[n][1], cands[m]), fd[n][2]>>>> \o rest
             ELSE rest

\* CheckMatchEntry comparing with len(check_match_values), not its half
CheckMatchEntryNoHalf(rule, i, vals) ==
    IF Len(vals) = 0 THEN <<>>
    ELSE <<Entry(i, "check_match", <<>>, rule.target,
                 PyBool(Cardinality({<<vals[k][1], PyKey(vals[k][2])>> :
                                        k \in 1..Len(vals)}) = Len(vals)))>>

\* "if check_match_values: yield ..." for the list vals: the value is
\* len(set(tuples)) == len(check_match_values) / 2
CheckMatchEntry(rule, i, vals) ==
    IF Len(vals) = 0 THEN <<>>
    ELSE <<Entry(i, "check_match", <<>>, rule.target,
                 PyBool(2 * Cardinality({<<vals[k][1], PyKey(vals[k][2])>> :
                                            k \in 1..Len(vals)}) = Len(vals)))>>

\* the check_match branch of rule i
CheckMatchYields(rule, i, fd) ==
    CheckMatchEntry(rule, i, check_match_values(rule.check_match, fd, 1, 1))

\* The pattern fr"({modified_sl}\[\d+\])": the characters of source_list
\* read as a regular expression after '$.' was replaced by '\$\.'.
\* A token matches one character: a literal, any character ('.'), a
\* character class ('[...]') or nothing at all (a '$' anchor inside).
RECURSIVE SourceListPattern(_)
SourceListPattern(sl) ==
    IF Len(sl) = 0 THEN <<>>
    ELSE IF StartsWithAt(sl, <<"$", ".">>, 1)
    THEN <<[k |-> "lit", cs |-> {"$"}], [k |-> "lit", cs |-> {"."}]>>
             \o SourceListPattern(SubSeq(sl, 3, Len(sl)))
    ELSE IF sl[1] = "."
    THEN <<[k |-> "any", cs |-> {}]>> \o SourceListPattern(Tail(sl))
    ELSE IF sl[1] = "$"
    THEN <<[k |-> "never", cs |-> {}]>> \o SourceListPattern(Tail(sl))
    ELSE IF sl[1] = "[" /\ Find(sl, <<"]">>, 3) # 0
    THEN LET close == Find(sl, <<"]">>, 3)
         IN  <<[k |-> "cls", cs |-> {sl[j] : j \in 2..(close - 1)}]>>
                 \o SourceListPattern(SubSeq(sl, close + 1, Len(sl)))
    ELSE <<[k |-> "lit", cs |-> {sl[1]}]>> \o SourceListPattern(Tail(sl))

TokenMatches(tok, c) ==
    \/ tok.k = "any"
    \/ tok.k \in {"lit", "cls"} /\ c \in tok.cs

\* the text the pattern matches at position i of path, <<>> if it does not
SourceListMatchAt(pat, path, i) ==
    LET n == Len(pat)
        d == i + n + 1       \* position of the first digit
    IN  IF /\ d <= Len(path)
           /\ \A j \in 1..n : TokenMatches(pat[j], path[i + j - 1])
           /\ path[i + n] = "["
           /\ IsDigit(path[d])
           /\ RunEnd(path, d, IsDigit) < Len(path)
           /\ path[RunEnd(path, d, IsDigit) + 1] = "]"
        THEN SubSeq(path, i, RunEnd(path, d, IsDigit) + 1)
        ELSE <<>>

\* the leftmost match of the pattern among the positions hits of path
LeftmostToken(pat, path, hits) ==
    IF hits = {} THEN <<>>
    ELSE <<SourceListMatchAt(pat, path,
                             CHOOSE i \in hits : \A j \in hits : i <= j)>>

\* the matches of the pattern pat in path
FindToken(pat, path) ==
    LeftmostToken(pat, path,
        {i \in 1..Len(path) : SourceListMatchAt(pat, path, i) # <<>>})

\* re.findall(source_list_regex, path): <<>> when there is no match,
\* otherwise <<match[0]>>, the leftmost match
SourceListToken(sl, path) == FindToken(SourceListPattern(sl), path)

\* target_track.get(target_list, 0)
TrackGet(tt, tl) == IF tl \in DOMAIN tt THEN tt[tl] ELSE 0

\* target_track[target_list] = n
TrackSet(tt, tl, n) ==
    [x \in DOMAIN tt \cup {tl} |-> IF x = tl THEN n ELSE tt[x]]

\* "match[0] not in source_track", for a match
IsFresh(strack, match) ==
    Len(match) > 0 /\ ~\E j \in 1..Len(strack) : strack[j] = match[1]

\* target_track after "if len(source_track) != 0:
\* target_track[target_list] += 1" for a fresh match
Advanced(tt0, tl, strack, match) ==
    IF IsFresh(strack, match) /\ Len(strack) # 0
    THEN TrackSet(tt0, tl, tt0[tl] + 1)
    ELSE tt0

\* source_track.append(match[0]) and the yield of the target path built
\* from target_track tt1
IterateYield(irule, i, path, value, mapping, st, match, tt1) ==
    [tt |-> tt1,
     tl |-> irule.target_list,
     strack |-> IF IsFresh(st.strack, match) THEN Append(st.strack, match[1])
                ELSE st.strack,
     out |-> Append(st.out,
                Entry(i, "iterate", path,
                      irule.target_list \o <<"[">>
                          \o IntToStr(tt1[irule.target_list]) \o <<"]">>
                          \o mapping.target,
                      value))]

\* the body of "if mapping.get('source') in path and ...": target_list is
\* assigned, its cursor is read (0 when it has none) and advanced when
\* match names a new element of the source list
IterateMatched(irule, i, path, value, mapping, st, match) ==
    IterateYield(irule, i, path, value, mapping, st, match,
        Advanced(TrackSet(st.tt, irule.target_list,
                          TrackGet(st.tt, irule.target_list)),
                 irule.target_list, st.strack, match))

\* the body of the two nested loops of the iterate branch, for flat item
\* (path, value) and mapping; st holds target_track, target_list,
\* source_track and the entries yielded so far
IterateBody(irule, i, path, value, mapping, st) ==
    IF Contains(mapping.source, path) /\ Contains(irule.source_list, path)
    THEN IterateMatched(irule, i, path, value, mapping, st,
                        SourceListToken(irule.source_list, path))
    ELSE st

\* the state after the first n iterations of the inner loop body: the
\* n-th one is for item ((n - 1) div m) + 1 and mapping ((n - 1) mod m) + 1
RECURSIVE IterateLoop(_, _, _, _, _)
IterateLoop(irule, i, fd, n, st) ==
    IF n = 0 THEN st
    ELSE IterateBody(irule, i,
                     fd[((n - 1) \div Len(irule.mappings)) + 1][1],
                     fd[((n - 1) \div Len(irule.mappings)) + 1][2],
                     irule.mappings[((n - 1) % Len(irule.mappings)) + 1],
                     IterateLoop(irule, i, fd, n - 1, st))

\* IterateEnd without the increment after the loops
IterateEndKeepsCursor(after) ==
    IF after.tl = Unbound
    THEN [out |-> after.out, tt |-> after.tt, tl |-> after.tl,
          raised |-> "UnboundLocalError"]
    ELSE [out |-> after.out, tt |-> after.tt, tl |-> after.tl,
          raised |-> "none"]

\* "target_track[target_list] += 1" after the loops left the state after
IterateEnd(after) ==
    IF after.tl = Unbound
    THEN [out |-> after.out, tt |-> after.tt, tl |-> after.tl,
          raised |-> "UnboundLocalError"]
    ELSE [out |-> after.out,
          tt |-> TrackSet(after.tt, after.tl, after.tt[after.tl] + 1),
          tl |-> after.tl, raised |-> "none"]

\* the iterate branch of rule i, started with target_track tt and
\* target_list tl: the loop, then target_track[target_list] += 1
IterateRun(rule, i, fd, tt, tl) ==
    IterateEnd(IterateLoop(rule.iterate, i, fd,
                           Len(fd) * Len(rule.iterate.mappings),
                           [tt |-> tt, tl |-> tl, strack |-> <<>>,
                            out |-> <<>>]))

\* what the source branch and the check_match branch of rule i yield
BranchYields(rule, i, fd) ==
    (IF "source" \in DOMAIN rule THEN SourceYields(rule, i, fd) ELSE <<>>)
        \o (IF "check_match" \in DOMAIN rule
            THEN CheckMatchYields(rule, i, fd) ELSE <<>>)

\* the yields out of the first two branches, then the iterate branch it
AfterBranches(out, it) ==
    [out |-> out \o it.out, tt |-> it.tt, tl |-> it.tl, raised |-> it.raised]

\* one iteration of "for rule in self._rules": what it yields, the locals
\* it leaves and the exception it raises after the yields, if any
RuleRun(rule, i, fd, tt, tl) ==
    IF "iterate" \in DOMAIN rule
    THEN AfterBranches(BranchYields(rule, i, fd),
                       IterateRun(rule, i, fd, tt, tl))
    ELSE [out |-> BranchYields(rule, i, fd), tt |-> tt, tl |-> tl,
          raised |-> "none"]

(***************************************************************************)
(* JSONFactory.parse_path                                                  *)
(*                                                                         *)
(* RE_PAT.findall(path), matched left to right.  Every Match operator      *)
(* gives the position after the match, or 0 when there is no match.        *)
(***************************************************************************)
\* the value None where a string is expected (an unmatched group)
NoneStr == NoneKey

IsQuote(c) == c \in {"'", "\""}

\* the class [\w\.\s-]
IsValChar(c) == IsWord(c) \/ c = "." \/ IsSpace(c) \/ c = "-"

SkipSpaces(s, i) == RunEnd(s, i, IsSpace) + 1

\* _vals
MatchVals(s, i) ==
    IF i > Len(s) THEN 0
    ELSE IF IsQuote(s[i])
    THEN LET e == RunEnd(s, i + 1, IsValChar)
         IN  IF e >= i + 1 /\ e < Len(s) /\ IsQuote(s[e + 1]) THEN e + 2
             ELSE 0
    ELSE IF IsDigit(s[i]) THEN RunEnd(s, i, IsDigit) + 1
    ELSE IF StartsWithAt(s, <<"t", "r", "u", "e">>, i) THEN i + 4
    ELSE IF StartsWithAt(s, <<"f", "a", "l", "s", "e">>, i) THEN i + 5
    ELSE IF StartsWithAt(s, <<"n", "u", "l", "l">>, i) THEN i + 4
    ELSE 0

\* \s*==\s*{_vals} at position p
MatchPredValue(s, p) ==
    IF StartsWithAt(s, <<"=", "=">>, p) THEN MatchVals(s, SkipSpaces(s, p + 2))
    ELSE 0

\* \w+ ending at w, then \s*==\s*{_vals}
MatchPredKey(s, i, w) ==
    IF w >= i + 2 THEN MatchPredValue(s, SkipSpaces(s, w + 1)) ELSE 0

\* _query : @\.\w+\s*==\s*{_vals}
MatchPred(s, i) ==
    IF ~StartsWithAt(s, <<"@", ".">>, i) THEN 0
    ELSE MatchPredKey(s, i, RunEnd(s, i + 2, IsWord))

\* (?:\s*&&\s*{_query})*
RECURSIVE MatchMorePreds(_, _)
\* the group matched up to n - 1 (n = 0: it did not match), and again
MorePredsNext(s, i, n) == IF n = 0 THEN i ELSE MatchMorePreds(s, n)

\* \s* matched up to p - 1, then &&\s*{_query}
MorePredsAt(s, i, p) ==
    IF StartsWithAt(s, <<"&", "&">>, p)
    THEN MorePredsNext(s, i, MatchPred(s, SkipSpaces(s, p + 2)))
    ELSE i

MatchMorePreds(s, i) == MorePredsAt(s, i, SkipSpaces(s, i))

\* the closing \) after the predicates, which end at last - 1
MatchQueryClose(s, last) ==
    IF last # 0 /\ last <= Len(s) /\ s[last] = ")" THEN last + 1 ELSE 0

\* the further predicates after the first one, which ends at first - 1
MatchQueryPreds(s, first) ==
    MatchQueryClose(s, IF first = 0 THEN 0 ELSE MatchMorePreds(s, first))

\* _stmt_query : \?\({_query}(?:\s*&&\s*{_query})*\)
MatchQuery(s, i) ==
    IF ~StartsWithAt(s, <<"?", "(">>, i) THEN 0
    ELSE MatchQueryPreds(s, MatchPred(s, i + 2))

\* (?:\[(?:{_stmt_index}|{_stmt_query})\])* : the groups index and query
\* keep the text of their last match
RECURSIVE MatchBrackets(_, _, _, _)
\* one bracket at i: digits up to d, or else a query up to q - 1
MatchBracket(s, i, index, query, d, q) ==
    IF d >= i + 1 /\ d < Len(s) /\ s[d + 1] = "]"
    THEN MatchBrackets(s, d + 2, SubSeq(s, i + 1, d), query)
    ELSE IF q # 0 /\ q <= Len(s) /\ s[q] = "]"
    THEN MatchBrackets(s, q + 1, index, SubSeq(s, i + 1, q - 1))
    ELSE [end |-> i, index |-> index, query |-> query]

MatchBrackets(s, i, index, query) ==
    IF i > Len(s) \/ s[i] # "[" THEN [end |-> i, index |-> index, query |-> query]
    ELSE MatchBracket(s, i, index, query, RunEnd(s, i + 1, IsDigit),
                      MatchQuery(s, i + 1))

\* the match of RE_PAT at i with the key up to w and the brackets b
SegmentMatch(s, i, w, b) ==
    [end |-> b.end, key |-> SubSeq(s, i + 1, w),
     index |-> b.index, query |-> b.query]

\* \.(?P<key>\w+) at i with \w+ up to w, then the brackets
MatchSegmentKey(s, i, w) ==
    IF s[i] = "." /\ w >= i + 1
    THEN SegmentMatch(s, i, w, MatchBrackets(s, w + 1, NoneStr, NoneStr))
    ELSE [end |-> 0, key |-> <<>>, index |-> NoneStr, query |-> NoneStr]

\* RE_PAT at position i: [end |-> 0] when it does not match there
MatchSegment(s, i) == MatchSegmentKey(s, i, RunEnd(s, i + 1, IsWord))

RECURSIVE FindAllSegments(_, _)
\* the match m as the dict of its groups, then the matches after it
SegmentThenRest(s, m) ==
    <<[key |-> m.key, index |-> m.index, query |-> m.query]>>
        \o FindAllSegments(s, m.end)

\* the leftmost match among the positions hits, then the later ones
LeftmostSegment(s, hits) ==
    IF hits = {} THEN <<>>
    ELSE SegmentThenRest(s, MatchSegment(s, CHOOSE i \in hits :
                                                \A j \in hits : i <= j))

\* RE_PAT.findall(path) from position from on
FindAllSegments(s, from) ==
    LeftmostSegment(s, {i \in from..Len(s) : MatchSegment(s, i).end # 0})

parse_path(path) == FindAllSegments(path, 1)

(***************************************************************************)
(* JSONFactory.insert_value                                                *)
(*                                                                         *)
(* A call gives [ret, raised]: the object it returns, or, when it raises,  *)
(* the object as the call left it.  Every exception of a type conflict     *)
(* (TypeError, AttributeError, KeyError) is reported as TypeError.         *)
(***************************************************************************)
\* the value None where an index is expected
NoIndex == -1

Result(ret, raised) == [ret |-> ret, raised |-> raised]

\* positions where r"\[(?P<index>\d+)\]" matches in key
IndexGroups(key) ==
    {i \in 1..Len(key) :
        /\ key[i] = "["
        /\ RunEnd(key, i + 1, IsDigit) >= i + 1
        /\ RunEnd(key, i + 1, IsDigit) < Len(key)
        /\ key[RunEnd(key, i + 1, IsDigit) + 1] = "]"}

\* the key without the match at i..e + 1, and int of its digits
IndexSplit(key, i, e) ==
    <<Remove(key, SubSeq(key, i, e + 1)), StrToInt(SubSeq(key, i + 1, e))>>

\* re.search: the leftmost of the positions hits, (None, None) if none
FirstIndexGroup(key, hits) ==
    IF hits = {} THEN <<NoneKey, NoIndex>>
    ELSE IndexSplit(key, CHOOSE h \in hits : \A j \in hits : h <= j,
             RunEnd(key, (CHOOSE h \in hits : \A j \in hits : h <= j) + 1,
                    IsDigit))

_get_index(key) == FirstIndexGroup(key, IndexGroups(key))

\* for _ in range(n - len(lst)): lst.append(filler)
RECURSIVE PadList(_, _, _)
PadList(lst, n, filler) ==
    IF Len(lst) >= n THEN lst ELSE PadList(Append(lst, filler), n, filler)

\* what the element ref of a container is after a call on it: the call's
\* return value where the caller assigns it, else the object itself, which
\* the call changed in place only if it is a dict
Assigned(ref, sub) ==
    IF sub.raised = "none" \/ ref.t = "dict" THEN sub.ret ELSE ref

InPlace(ref, sub) == IF ref.t = "dict" THEN sub.ret ELSE ref

RECURSIVE _iter(_, _, _)
\* reference[key][idx] = _iter(keys, ref) if keys else value, sub being
\* the result of the right-hand side
IterAssign(r1, key, idx, padded, ref, sub) ==
    Result(DictSet(r1, key,
               PyList([padded EXCEPT ![idx + 1] = Assigned(ref, sub)])),
           sub.raised)

\* ref = reference[key][idx] on the padded list, and the assignment
IterElement(r1, key, idx, padded, rest, value) ==
    IterAssign(r1, key, idx, padded, padded[idx + 1],
               IF Len(rest) > 0 THEN _iter(rest, padded[idx + 1], value)
               ELSE Result(value, "none"))

\* rlen = len(reference[key]) and the padding with {} up to idx
IterList(r1, key, idx, cur, rest, value) ==
    IF idx = NoIndex \/ cur.t # "list" THEN Result(r1, "TypeError")
    ELSE IterElement(r1, key, idx, PadList(cur.v, idx + 1, EmptyDict), rest,
                     value)

\* the branch "if index:" on r1, which holds key
IterIndexed(r1, key, idx, rest, value) ==
    IterList(r1, key, idx, DictGet(r1, key), rest, value)

\* key, idx = index; "if not key in reference: reference[key] = []".
\* "if index:" holds for the tuple (None, None) as well, so that the
\* else branch is never taken.
IterKey(reference, index, rest, value) ==
    IF reference.t # "dict" THEN Result(reference, "TypeError")
    ELSE IterIndexed(IF DictHas(reference, index[1]) THEN reference
                     ELSE DictSet(reference, index[1], EmptyList),
                     index[1], index[2], rest, value)

_iter(keys, reference0, value) ==
    IF Len(keys) = 0 THEN Result(PyNone, "none")
    ELSE IterKey(IF reference0.t = "none" THEN EmptyDict ELSE reference0,
                 _get_index(keys[1]), Tail(keys), value)

\* path_keys: path.split('.') without a leading '$'
PathKeys(split) == IF split[1] = <<"$">> THEN Tail(split) ELSE split

insert_value(path, value, rec) ==
    _iter(PathKeys(Split(path, <<".">>)), rec, value)

(***************************************************************************)
(* JSONFactory.iter_with_query                                             *)
(***************************************************************************)
\* one condition of a query: the two sides of '==', cleaned
CleanTerm(term) ==
    Strip(Remove(Remove(Remove(Strip(term), <<"@", ".">>), <<"'">>), <<"\"">>))

Condition(pred) ==
    LET sides == Split(Strip(pred), <<"=", "=">>)
    IN  [k \in 1..Len(sides) |-> CleanTerm(sides[k])]

\* the list "conditions" of the query text "?( ... )"
Conditions(query) ==
    LET preds == Split(SubSeq(query, 3, Len(query) - 1), <<"&", "&">>)
    IN  [k \in 1..Len(preds) |-> Condition(preds[k])]

\* a placeholder that holds none of the conditions
PlaceholderEmpty(conds) == EmptyDict

\* dict(conditions): the values are the literal texts, as strings
Placeholder(conds) ==
    DictFromPairs([k \in 1..Len(conds) |-> <<conds[k][1], PyStr(conds[k][2])>>])

\* all(ele.get(k) == v for k, v in conditions)
Satisfies(ele, conds) ==
    \A k \in 1..Len(conds) :
        PyEq(DictGetDefault(ele, conds[k][1], PyNone), PyStr(conds[k][2]))

\* the list "indices", as positions counted from 1
RECURSIVE MatchIndices(_, _, _)
MatchIndices(elems, conds, i) ==
    IF i > Len(elems) THEN <<>>
    ELSE (IF Satisfies(elems[i], conds) THEN <<i>> ELSE <<>>)
             \o MatchIndices(elems, conds, i + 1)

\* tuple(d.items()) as a set element
ItemsKey(d) == [k \in 1..Len(d.v) |-> <<d.v[k][1], PyKey(d.v[k][2])>>]

\* the elements of lst whose key differs from the keys of all earlier ones
RECURSIVE FirstSeen(_, _, _)
FirstSeen(lst, key(_), i) ==
    IF i > Len(lst) THEN <<>>
    ELSE (IF \E j \in 1..(i - 1) : key(lst[j]) = key(lst[i]) THEN <<>>
          ELSE <<lst[i]>>) \o FirstSeen(lst, key, i + 1)

\* lst in the order order[1], order[2], ... of its positions; positions
\* that order does not name keep their place at the end
Reordered(lst, order) ==
    LET named == SelectSeq(order, LAMBDA k : k <= Len(lst))
        others == SelectSeq([k \in 1..Len(lst) |-> k],
                            LAMBDA k : ~\E j \in 1..Len(named) : named[j] = k)
        pos == named \o others
    IN  [k \in 1..Len(lst) |-> lst[pos[k]]]

\* _dedup_list(input_list).  A set of tuples is listed in hash order,
\* which the interpreter picks: order is the one picked.
_dedup_list(input, order) ==
    LET elems == IF input.t = "dict"           \* iterating a dict: its keys
                 THEN [k \in 1..Len(input.v) |->
                          IF input.v[k][1] = NoneKey THEN PyNone
                          ELSE PyStr(input.v[k][1])]
                 ELSE IF input.t = "str"       \* iterating a str: its chars
                 THEN [k \in 1..Len(input.v) |-> PyStr(<<input.v[k]>>)]
                 ELSE input.v
        hashable(x) == x.t \notin {"dict", "list"}
    IN  IF input.t \notin {"none", "list", "dict", "str"}
        THEN Result(input, "TypeError")
        ELSE IF input.t = "none" THEN Result(EmptyList, "none")
        ELSE IF \A k \in 1..Len(elems) : elems[k].t = "dict"
        THEN IF \A k \in 1..Len(elems) :
                    \A j \in 1..Len(elems[k].v) : hashable(elems[k].v[j][2])
             THEN Result(PyList(Reordered(FirstSeen(elems, ItemsKey, 1), order)),
                         "none")
             ELSE Result(input, "TypeError")
        ELSE IF \A k \in 1..Len(elems) : hashable(elems[k])
        THEN Result(PyList(FirstSeen(elems, PyKey, 1)), "none")
        ELSE Result(input, "TypeError")

\* func_to_execute: _insert_value of insert_query, or _dedup_list
InsertFunc(value) == [kind |-> "insert", value |-> value, order |-> <<>>]

DedupFunc(order) == [kind |-> "dedup", value |-> PyNone, order |-> order]

Execute(func, arg) ==
    IF func.kind = "insert" THEN Result(func.value, "none")
    ELSE _dedup_list(arg, func.order)

RECURSIVE iter_with_query(_, _, _)
\* Case A: reference[key][indices[index]] after the call below it (keys
\* left) or the assignment of func's result (no keys left); sub is the
\* result of the call or of func
CaseAAssign(rest, r1, key, lst, at, ref, sub) ==
    Result(DictSet(r1, key,
               PyList([lst EXCEPT ![at] = IF Len(rest) > 0
                                          THEN InPlace(ref, sub)
                                          ELSE Assigned(ref, sub)])),
           sub.raised)

\* Case A: ref = reference[key][indices[index]], at position at of lst
CaseAElement(func, rest, r1, key, lst, at) ==
    CaseAAssign(rest, r1, key, lst, at, lst[at],
                IF Len(rest) > 0 THEN iter_with_query(func, rest, lst[at])
                ELSE Execute(func, lst[at]))

\* CaseA appending one placeholder however many matches are missing
CaseAOnePlaceholder(func, rest, r1, key, cur, conditions, indices, index) ==
    IF Len(indices) <= index
    THEN CaseAElement(func, rest, r1, key,
             Append(cur.v, Placeholder(conditions)), Len(cur.v) + 1)
    ELSE CaseAElement(func, rest, r1, key, cur.v, indices[index + 1])

\* Case A - query w/ index: with too few matches the list is padded with
\* placeholders and the last element is taken
CaseA(func, rest, r1, key, cur, conditions, indices, index) ==
    IF Len(indices) <= index
    THEN CaseAElement(func, rest, r1, key,
             PadList(cur.v, Len(cur.v) + index + 1 - Len(indices),
                     Placeholder(conditions)),
             Len(cur.v) + index + 1 - Len(indices))
    ELSE CaseAElement(func, rest, r1, key, cur.v, indices[index + 1])

RECURSIVE CaseB(_, _, _, _, _, _)
\* Case B: the list after the call for the n-th index, and the later ones
CaseBNext(func, rest, lst1, ixs, n, index, sub) ==
    IF sub.raised # "none" THEN Result(lst1, sub.raised)
    ELSE CaseB(func, rest, lst1, ixs, n + 1, index)

\* Case B: sub is the result of the call for ref = reference[key][idx]
CaseBElement(func, rest, lst, ixs, n, index, sub) ==
    CaseBNext(func, rest,
              [lst EXCEPT ![ixs[n]] = InPlace(lst[ixs[n]], sub)],
              ixs, n, index, sub)

\* "for idx in indices" of Case B over the list lst, from the n-th index
\* on; without keys left it reads reference[key][index] with index None
CaseB(func, rest, lst, ixs, n, index) ==
    IF n > Len(ixs) THEN Result(lst, "none")
    ELSE IF Len(rest) > 0
    THEN CaseBElement(func, rest, lst, ixs, n, index,
                      iter_with_query(func, rest, lst[ixs[n]]))
    ELSE Result(lst, "TypeError")

\* reference after the loop of Case B gave sub
CaseBEnd(r1, key, sub) == Result(DictSet(r1, key, PyList(sub.ret)), sub.raised)

\* Case B - query w/out index: without a match a placeholder is appended
\* and is the one element to write
CaseBStart(func, rest, r1, key, cur, conditions, indices, index) ==
    CaseBEnd(r1, key,
        IF Len(indices) = 0
        THEN CaseB(func, rest, Append(cur.v, Placeholder(conditions)),
                   <<Len(cur.v) + 1>>, 1, index)
        ELSE CaseB(func, rest, cur.v, indices, 1, index))

\* the two cases of a query, with the list indices
QueryCases(func, rest, r1, key, cur, conditions, indices, index) ==
    IF index # NoIndex
    THEN CaseA(func, rest, r1, key, cur, conditions, indices, index)
    ELSE CaseBStart(func, rest, r1, key, cur, conditions, indices, index)

\* "for i, ele in enumerate(reference[key])" on cur = reference[key]
QueryList(func, rest, r1, key, cur, conditions, index) ==
    IF cur.t # "list" \/ \E k \in 1..Len(cur.v) : cur.v[k].t # "dict"
    THEN Result(r1, "TypeError")
    ELSE QueryCases(func, rest, r1, key, cur, conditions,
                    MatchIndices(cur.v, conditions, 1), index)

\* "if query is not None:" on r1, which holds key
QuerySegment(func, rest, r1, key, conditions, index) ==
    QueryList(func, rest, r1, key, DictGet(r1, key), conditions, index)

\* Case C: reference[key][index] after the call or the assignment
CaseCAssign(rest, r1, key, lst, at, ref, sub) ==
    Result(DictSet(r1, key,
               PyList([lst EXCEPT ![at] = IF Len(rest) > 0
                                          THEN InPlace(ref, sub)
                                          ELSE Assigned(ref, sub)])),
           sub.raised)

\* Case C: ref = reference[key][index], at position at of the padded lst
CaseCElement(func, rest, r1, key, lst, at) ==
    CaseCAssign(rest, r1, key, lst, at, lst[at],
                IF Len(rest) > 0 THEN iter_with_query(func, rest, lst[at])
                ELSE Execute(func, lst[at]))

\* Case C - index only, on cur = reference[key]
CaseCList(func, rest, r1, key, cur, index) ==
    IF cur.t # "list" THEN Result(r1, "TypeError")
    ELSE CaseCElement(func, rest, r1, key,
                      PadList(cur.v, index + 1, EmptyDict), index + 1)

CaseC(func, rest, r1, key, index) ==
    CaseCList(func, rest, r1, key, DictGet(r1, key), index)

\* Case D with keys left, key held: the call changes ref in place
CaseDInto(reference, key, ref, sub) ==
    Result(DictSet(reference, key, InPlace(ref, sub)), sub.raised)

\* Case D without keys left: reference[key] = func(...)
CaseDAssign(reference, key, sub) ==
    IF sub.raised = "none" THEN Result(DictSet(reference, key, sub.ret), "none")
    ELSE Result(reference, sub.raised)

\* Case D - key only.  With keys left, ref = reference.get(key, {}): the
\* default is a new dict that reference does not hold, so that what the
\* call writes into it is lost.
CaseD(func, rest, reference, key) ==
    IF Len(rest) > 0
    THEN IF DictHas(reference, key)
         THEN CaseDInto(reference, key, DictGet(reference, key),
                        iter_with_query(func, rest, DictGet(reference, key)))
         ELSE Result(reference,
                     iter_with_query(func, rest, EmptyDict).raised)
    ELSE CaseDAssign(reference, key,
                     Execute(func, DictGetDefault(reference, key, EmptyDict)))

\* "if not key in reference: reference[key] = []"
WithList(reference, key) ==
    IF DictHas(reference, key) THEN reference
    ELSE DictSet(reference, key, EmptyList)

\* the four cases for the first of keys, seg, and the others, rest
Cases(func, seg, rest, reference) ==
    IF reference.t # "dict" THEN Result(reference, "TypeError")
    ELSE IF seg.query # NoneStr
    THEN QuerySegment(func, rest, WithList(reference, seg.key), seg.key,
                      Conditions(seg.query),
                      IF seg.index = NoneStr THEN NoIndex
                      ELSE StrToInt(seg.index))
    ELSE IF seg.index # NoneStr
    THEN CaseC(func, rest, WithList(reference, seg.key), seg.key,
               StrToInt(seg.index))
    ELSE CaseD(func, rest, reference, seg.key)

iter_with_query(func, keys, reference0) ==
    IF Len(keys) = 0
    THEN Result(IF reference0.t = "none" THEN EmptyDict ELSE reference0,
                "IndexError")
    ELSE Cases(func, keys[1], Tail(keys),
               IF reference0.t = "none" THEN EmptyDict ELSE reference0)

insert_query(path, value, rec) ==
    iter_with_query(InsertFunc(value), parse_path(path), rec)

(***************************************************************************)
(* JSONFactory.remove_duplicates                                           *)
(***************************************************************************)
remove_duplicates(path, rec, order) ==
    iter_with_query(DedupFunc(order), parse_path(path), rec)

(***************************************************************************)
(* Inputs                                                                  *)
(***************************************************************************)
MaxRules == 2      \* longest rule list of an iterated manifest
MaxProjected == 3  \* longest rule list of a projection
MaxElems == 3      \* longest source list of the documents
MaxCalls == 3      \* longest sequence of direct writer calls
MaxOrder == 3      \* list positions a hash order may permute

\* the paths and texts the inputs are made of
P_a_b == <<"$", ".", "a", ".", "b">>
P_a == <<"$", ".", "a">>
P_n == <<"$", ".", "n">>
P_v == <<"$", ".", "v">>
P_A == <<"$", ".", "A">>
P_B == <<"$", ".", "B">>
P_AB == <<"$", ".", "A", "B">>
P_xs == <<"$", ".", "x", "s">>
P_q == <<"$", ".", "q">>
P_p0xs == <<"$", ".", "p", "[", "0", "]", ".", "x", "s">>
P_ys == <<"$", ".", "y", "s">>
P_zs == <<"$", ".", "z", "s">>
P_out == <<"$", ".", "o", "u", "t">>
P_o == <<"$", ".", "o">>
P_o0 == <<"$", ".", "o", "[", "0", "]">>
P_r == <<"$", ".", "r">>
P_same == <<"$", ".", "s", "a", "m", "e">>
S_k == <<".", "k">>
S_j == <<".", "j">>
S_key == <<".", "k", "e", "y">>
S_n == <<".", "n">>
S_v == <<".", "v">>
Q_tR == <<"[", "?", "(", "@", ".", "t", "=", "=", "'", "R", "'", ")", "]">>

SourceRule(source, target) == [source |-> source, target |-> target]

CheckMatchRule(paths, target) == [check_match |-> paths, target |-> target]

IterateRule(sl, tl, mappings) ==
    [iterate |-> [source_list |-> sl, target_list |-> tl,
                  mappings |-> mappings]]

FilterRule(path) == [filter_unique |-> path]

Mapping(source, target) == [source |-> source, target |-> target]

\* all rule lists of at most max rules of pool
RuleLists(pool, max) == UNION {[1..n -> pool] : n \in 0..max}

\* element i of the source list xs: every element has j, all but
\* element 1 have k
XsElem(i) ==
    PyDict((IF i = 1 THEN <<>> ELSE <<<<<<"k">>, PyStr(<<"k">> \o IntToStr(i))>>>>)
               \o <<<<<<"j">>, PyStr(<<"j">> \o IntToStr(i))>>>>)

A_b == <<<<"a">>, PyDict(<<<<<<"b">>, PyStr(<<"x">>)>>,
                           <<<<"b", "c">>, PyStr(<<"y">>)>>>>)>>

XsDoc(n) == PyDict(<<A_b, <<<<"x", "s">>, PyList([i \in 1..n |-> XsElem(i - 1)])>>>>)

Group(x, y) ==
    PyDict((IF x = 0 THEN <<>> ELSE <<<<<<"x">>, PyInt(x)>>>>)
               \o (IF y = 0 THEN <<>> ELSE <<<<<<"y">>, PyInt(y)>>>>))

\* the groups A and B (and AB, whose path contains the prefix $.A)
ABDoc(a, b, ab) ==
    PyDict(<<<<<<"A">>, a>>>> \o (IF b = PyNone THEN <<>> ELSE <<<<<<"B">>, b>>>>)
               \o (IF ab = PyNone THEN <<>> ELSE <<<<<<"A", "B">>, ab>>>>))

\* a source list under an index: p[0].xs
PDoc ==
    PyDict(<<<<<<"p">>,
        PyList(<<PyDict(<<<<<<"x", "s">>,
                           PyList(<<XsElem(0), XsElem(2)>>)>>>>)>>)>>>>)

ManifestDocs ==
    {XsDoc(n) : n \in 0..MaxElems}
        \cup {EmptyDict, PDoc,
              ABDoc(Group(1, 2), Group(1, 2), PyNone),
              ABDoc(Group(1, 0), Group(2, 0), PyNone),
              ABDoc(Group(1, 2), Group(1, 0), PyNone),
              ABDoc(Group(1, 0), PyNone, PyNone),
              ABDoc(Group(1, 0), PyNone, Group(1, 0)),
              ABDoc(Group(1, 0), Group(1, 0), Group(1, 0))}

ManifestRules ==
    {SourceRule(P_a_b, P_out),
     SourceRule(P_a, P_out),
     CheckMatchRule(<<P_A, P_B>>, P_same),
     CheckMatchRule(<<P_A, P_AB>>, P_same),
     IterateRule(P_xs, P_ys, <<Mapping(S_k, S_key)>>),
     IterateRule(P_xs, P_ys, <<Mapping(S_k, S_key), Mapping(S_j, <<>>)>>),
     IterateRule(P_xs, P_zs, <<Mapping(S_j, <<>>)>>),
     IterateRule(P_q, P_zs, <<Mapping(S_k, S_key)>>),
     IterateRule(P_p0xs, P_zs, <<Mapping(S_k, S_key)>>),
     FilterRule(P_ys)}

\* the orders a set of at most MaxOrder tuples may be listed in
Orders == {o \in [1..MaxOrder -> 1..MaxOrder] :
              \A i, j \in 1..MaxOrder : o[i] = o[j] => i = j}

(***************************************************************************)
(* list(JSONManifest(data, rules)) : iterating the manifest                *)
(***************************************************************************)
Constructed(d, rs) ==
    /\ data = d
    /\ rules = rs
    /\ fdata = FlatData(d)
    /\ filters = find_filters(rs)
    /\ ri = 1
    /\ target_track = <<>>
    /\ target_list = Unbound
    /\ emitted = <<>>
    /\ queries = <<>>
    /\ record = EmptyDict
    /\ qi = 0
    /\ fi = 0
    /\ err = "none"
    /\ log = <<>>
    /\ start = EmptyDict

InitManifest ==
    /\ pc = "iterating"
    /\ \E d \in ManifestDocs : \E rs \in RuleLists(ManifestRules, MaxRules) :
           Constructed(d, rs)

\* the generator after the run of rule ri
Yielded(run) ==
    /\ emitted' = emitted \o run.out
    /\ target_track' = run.tt
    /\ target_list' = run.tl
    /\ IF run.raised = "none"
       THEN ri' = ri + 1 /\ UNCHANGED <<pc, err>>
       ELSE pc' = "error" /\ err' = run.raised /\ UNCHANGED ri

\* the generator handles rule ri: it yields the rule's entries and then
\* goes on to the next rule, or raises
YieldRule ==
    /\ pc = "iterating"
    /\ ri <= Len(rules)
    /\ Yielded(RuleRun(rules[ri], ri, fdata, target_track, target_list))
    /\ UNCHANGED <<data, rules, fdata, filters, queries, record, qi, fi, log,
                   start>>

\* the generator returns after the last rule
StopIteration ==
    /\ pc = "iterating"
    /\ ri > Len(rules)
    /\ pc' = "done"
    /\ UNCHANGED <<data, rules, fdata, filters, ri, target_track, target_list,
                   emitted, queries, record, qi, fi, err, log, start>>

NextManifest == YieldRule \/ StopIteration

SpecManifest == InitManifest /\ [][NextManifest]_vars

(***************************************************************************)
(* Properties of the manifest                                              *)
(***************************************************************************)
\* rule i was handled to its end without an exception
Processed(i) == i < ri

\* the entries rule i yielded
EntriesOf(i) == SelectSeq(emitted, LAMBDA e : e.rule = i)

IsIterate(i) == "iterate" \in DOMAIN rules[i]

\* some flat path contains source_list and the source of some mapping
IterateMatches(irule) ==
    \E k \in 1..Len(fdata) : \E m \in 1..Len(irule.mappings) :
        /\ Contains(irule.mappings[m].source, fdata[k][1])
        /\ Contains(irule.source_list, fdata[k][1])

\* C1: iterating the manifest raises no exception at an iterate rule
\* whose source_list and mapping sources match no flat path, and that
\* rule contributes no entry.
C1_UnmatchedIterateCompletes ==
    \A i \in 1..Len(rules) :
        (IsIterate(i) /\ ~IterateMatches(rules[i].iterate))
            => /\ ~(pc = "error" /\ ri = i)
               /\ EntriesOf(i) = <<>>

\* the (suffix, value) tuples of the flat paths that contain prefix
PrefixTuples(prefix) ==
    {<<Remove(fdata[k][1], prefix), PyKey(fdata[k][2])>> :
        k \in {n \in 1..Len(fdata) : Contains(prefix, fdata[n][1])}}

TwoPrefixes(i) ==
    /\ "check_match" \in DOMAIN rules[i]
    /\ Len(rules[i].check_match) = 2
    /\ rules[i].check_match[1] # rules[i].check_match[2]

\* C5: a check_match rule with exactly two distinct prefixes emits
\* nothing when no flat path contains either prefix, and otherwise exactly
\* one entry (target, b), b being true iff the tuple set of the first
\* prefix equals the tuple set of the second.
C5_CheckMatchTwoPrefixes ==
    \A i \in 1..Len(rules) :
        (Processed(i) /\ TwoPrefixes(i))
            => LET first == PrefixTuples(rules[i].check_match[1])
                   second == PrefixTuples(rules[i].check_match[2])
                   own == SelectSeq(EntriesOf(i),
                                    LAMBDA e : e.kind = "check_match")
               IN  IF first = {} /\ second = {} THEN own = <<>>
                   ELSE /\ Len(own) = 1
                        /\ own[1].path = rules[i].target
                        /\ own[1].value = PyBool(first = second)

\* witness of C5: one rule list whose check_match rules emitted both
\* true (equal non-empty sets) and false
C5_Witness ==
    \E i, j \in 1..Len(rules) :
        /\ Processed(i) /\ TwoPrefixes(i)
        /\ Processed(j) /\ TwoPrefixes(j)
        /\ PrefixTuples(rules[i].check_match[1]) # {}
        /\ \E e \in 1..Len(emitted) :
               emitted[e].rule = i /\ emitted[e].value = PyBool(TRUE)
        /\ \E e \in 1..Len(emitted) :
               emitted[e].rule = j /\ emitted[e].value = PyBool(FALSE)

\* C7: a source rule contributes one entry (rule.target, v) for each flat
\* pair (p, v) with p equal to rule.source and no other entry.
C7_SourceRuleExact ==
    \A i \in 1..Len(rules) :
        (Processed(i) /\ "source" \in DOMAIN rules[i])
            => LET own == SelectSeq(EntriesOf(i), LAMBDA e : e.kind = "source")
                   equal == {k \in 1..Len(fdata) : fdata[k][1] = rules[i].source}
               IN  /\ Len(own) = Cardinality(equal)
                   /\ \A n \in 1..Len(own) :
                          /\ own[n].path = rules[i].target
                          /\ \E k \in equal : own[n].value = fdata[k][2]

\* witness of C7: a processed source rule with one entry whose source is
\* a proper substring of another flat path
C7_Witness ==
    \E i \in 1..Len(rules) :
        /\ Processed(i) /\ "source" \in DOMAIN rules[i]
        /\ Len(EntriesOf(i)) = 1
        /\ \E k \in 1..Len(fdata) :
               /\ fdata[k][1] # rules[i].source
               /\ Contains(rules[i].source, fdata[k][1])

\* the decimal number between '[' and ']' that follows prefix in path,
\* -1 when path does not continue that way
IndexAfter(prefix, path) ==
    LET d == Len(prefix) + 2
        e == RunEnd(path, d, IsDigit)
    IN  IF /\ StartsWithAt(path, prefix \o <<"[">>, 1)
           /\ e >= d /\ e < Len(path) /\ path[e + 1] = "]"
        THEN StrToInt(SubSeq(path, d, e))
        ELSE -1

\* the source-list elements that produced an entry of rule i
ProducingElems(i) ==
    {IndexAfter(rules[i].iterate.source_list, EntriesOf(i)[n].src) :
        n \in 1..Len(EntriesOf(i))}

\* the entries of rule i carry the indices c, c + 1, ... in the order of
\* their source-list elements
IndicesFrom(i, c) ==
    LET own == EntriesOf(i)
        elems == ProducingElems(i)
    IN  \A n \in 1..Len(own) :
            LET j == IndexAfter(rules[i].iterate.source_list, own[n].src)
            IN  /\ j >= 0
                /\ IndexAfter(rules[i].iterate.target_list, own[n].path)
                       = c + Cardinality({x \in elems : x < j})

\* C6: the target indices of the entries of an iterate rule are the
\* contiguous sequence 0, 1, ..., k-1 in source-list order, k being the
\* number of source-list elements that produced an entry, and the entries
\* of one source-list element carry one index.
C6_IndicesFromZero ==
    \A i \in 1..Len(rules) : (Processed(i) /\ IsIterate(i)) => IndicesFrom(i, 0)

\* the target indices of the entries of rule i
TargetIndices(i) ==
    {IndexAfter(rules[i].iterate.target_list, EntriesOf(i)[n].path) :
        n \in 1..Len(EntriesOf(i))}

\* rules i and j are iterate rules with one target list, i before j
ShareTarget(i, j) ==
    /\ i < j
    /\ IsIterate(i) /\ IsIterate(j)
    /\ rules[i].iterate.target_list = rules[j].iterate.target_list

\* C17: the blocks of two iterate rules of a rule list that share their
\* target list do not overlap: every target index the later rule emits is
\* greater than every target index the earlier rule emits.
C17_BlocksDoNotOverlap ==
    \A i, j \in 1..Len(rules) :
        ShareTarget(i, j)
            => \A x \in TargetIndices(i) : \A y \in TargetIndices(j) :
                   x >= 0 /\ x < y

\* witness of C17: two processed iterate rules that share their target
\* list, the earlier one with entries for two elements of its source list
C17_Witness ==
    \E i, j \in 1..Len(rules) :
        /\ ShareTarget(i, j)
        /\ Processed(j)
        /\ Cardinality(TargetIndices(i)) >= 2
        /\ TargetIndices(j) # {}

\* the target list whose cursor processing rule i may change
OwnTarget(i) == rules[i].iterate.target_list

\* the target lists of the iterate rules of the rule list
TargetLists == {rules[i].iterate.target_list :
                   i \in {n \in 1..Len(rules) : IsIterate(n)}}

\* the cursor of target list tl in the track tt, None when it has none
CursorOf(tt, tl) == IF tl \in DOMAIN tt THEN tt[tl] ELSE -1

\* C19: processing an iterate rule changes only the cursor of the rule's
\* own target list: the cursor of every other target list is what it was,
\* also when the rule emits no entry.
C19_CursorIsolation ==
    [][\A tl \in TargetLists :
           (ri <= Len(rules) /\ IsIterate(ri) /\ tl # OwnTarget(ri))
               => CursorOf(target_track', tl) = CursorOf(target_track, tl)]_vars

(***************************************************************************)
(* JSONFactory(JSONManifest(data, rules)).get_projection()                 *)
(***************************************************************************)
P_a_r == <<"$", ".", "a", ".", "r">>
P_o1_r == <<"$", ".", "o", "[", "1", "]", ".", "r">>
S_xs == <<".", "x", "s">>

FullDoc ==
    PyDict(<<A_b,
             <<<<"n">>, PyStr(<<"r", "1">>)>>,
             <<<<"v">>, PyInt(42)>>,
             <<<<"x", "s">>, PyList(<<XsElem(0), XsElem(1), XsElem(2)>>)>>>>)

ProjectionDocs == {EmptyDict, FullDoc}

ProjectionRules ==
    {SourceRule(P_a_b, P_out),
     SourceRule(P_a_b, P_o0),
     SourceRule(P_n, P_r \o Q_tR \o S_n),
     SourceRule(P_v, P_r \o Q_tR \o S_v),
     SourceRule(P_n, P_a_r \o Q_tR \o S_n),
     SourceRule(P_n, P_o1_r \o Q_tR \o S_n),
     IterateRule(P_xs, P_o, <<Mapping(S_k, <<>>)>>),
     IterateRule(P_xs, P_r \o Q_tR \o S_xs, <<Mapping(S_j, S_key)>>),
     FilterRule(P_r),
     FilterRule(P_o)}

Init ==
    /\ pc = "running"
    /\ \E d \in ProjectionDocs : \E rs \in RuleLists(ProjectionRules, MaxProjected) :
           Constructed(d, rs)

\* a call of the writer, as the log keeps it
Call(op, path, value, raised) ==
    [op |-> op, path |-> path, value |-> value, raised |-> raised]

\* the locals st after the call op for the entry e gave r
Written(st, e, op, r) ==
    [record |-> IF r.ret.t = "dict" THEN r.ret ELSE st.record,
     queries |-> st.queries,
     emitted |-> Append(st.emitted, e),
     log |-> Append(st.log, Call(op, e.path, e.value, r.raised)),
     raised |-> r.raised]

\* ConsumeEntry writing every entry at once, with or without a query
ConsumeEntryMerged(st, e) ==
    IF st.raised # "none" THEN st
    ELSE IF Contains(<<"?">>, e.path)
    THEN Written(st, e, "insert_query",
                 insert_query(e.path, e.value, st.record))
    ELSE Written(st, e, "insert_value",
                 insert_value(e.path, e.value, st.record))

\* The body of "for path, value in self._manifest" for the entry e.  st
\* holds the locals record and queries, the entries received and the
\* calls made so far, and the exception raised, after which nothing runs.
ConsumeEntry(st, e) ==
    IF st.raised # "none" THEN st
    ELSE IF Contains(<<"?">>, e.path)
    THEN [st EXCEPT !.queries = Append(@, e), !.emitted = Append(@, e)]
    ELSE Written(st, e, "insert_value",
                 insert_value(e.path, e.value, st.record))

RECURSIVE ConsumeAll(_, _, _)
ConsumeAll(st, out, n) ==
    IF n = 0 THEN st ELSE ConsumeEntry(ConsumeAll(st, out, n - 1), out[n])

\* get_projection after the entries of the run of rule ri were consumed
\* and left the locals st.  An exception of insert_value ends the call
\* with the generator suspended (its locals are kept as the rule found
\* them); an exception of the generator comes after the rule's entries.
Consumed(run, st) ==
    /\ record' = st.record
    /\ queries' = st.queries
    /\ emitted' = st.emitted
    /\ log' = st.log
    /\ IF st.raised # "none"
       THEN /\ pc' = "error" /\ err' = st.raised
            /\ UNCHANGED <<ri, target_track, target_list>>
       ELSE /\ target_track' = run.tt
            /\ target_list' = run.tl
            /\ IF run.raised # "none"
               THEN pc' = "error" /\ err' = run.raised /\ UNCHANGED ri
               ELSE ri' = ri + 1 /\ UNCHANGED <<pc, err>>

\* the entries of the run of rule ri, written or deferred one by one
ConsumeRun(run) ==
    Consumed(run, ConsumeAll([record |-> record, queries |-> queries,
                              emitted |-> emitted, log |-> log,
                              raised |-> "none"], run.out, Len(run.out)))

\* Consume building the projection in the data document itself
ConsumeAliased ==
    /\ pc = "running"
    /\ ri <= Len(rules)
    /\ ConsumeRun(RuleRun(rules[ri], ri, fdata, target_track, target_list))
    /\ data' = record'
    /\ UNCHANGED <<rules, fdata, filters, qi, fi, start>>

\* The first loop of get_projection while the manifest handles rule ri:
\* each entry the rule yields is written or deferred at once.
Consume ==
    /\ pc = "running"
    /\ ri <= Len(rules)
    /\ ConsumeRun(RuleRun(rules[ri], ri, fdata, target_track, target_list))
    /\ UNCHANGED <<data, rules, fdata, filters, qi, fi, start>>

\* get_projection after insert_query for the entry e gave r
QueryWritten(e, r) ==
    /\ record' = r.ret
    /\ log' = Append(log, Call("insert_query", e.path, e.value, r.raised))
    /\ IF r.raised # "none"
       THEN pc' = "error" /\ err' = r.raised /\ UNCHANGED qi
       ELSE qi' = qi + 1 /\ UNCHANGED <<pc, err>>

\* one iteration of "for path, value in queries"
WriteQuery ==
    /\ pc = "running"
    /\ ri > Len(rules)
    /\ qi < Len(queries)
    /\ QueryWritten(queries[qi + 1],
                    insert_query(queries[qi + 1].path, queries[qi + 1].value,
                                 record))
    /\ UNCHANGED <<data, rules, fdata, filters, ri, target_track, target_list,
                   emitted, queries, fi, start>>

\* filter_record after remove_duplicates for path gave r
Filtered(path, r) ==
    /\ record' = r.ret
    /\ log' = Append(log, Call("remove_duplicates", path, PyNone, r.raised))
    /\ IF r.raised # "none"
       THEN pc' = "error" /\ err' = r.raised /\ UNCHANGED fi
       ELSE fi' = fi + 1 /\ UNCHANGED <<pc, err>>

\* one iteration of "for path in paths" of filter_record
ApplyFilter ==
    /\ pc = "running"
    /\ ri > Len(rules)
    /\ qi = Len(queries)
    /\ fi < Len(filters)
    /\ \E order \in Orders :
           Filtered(filters[fi + 1],
                    remove_duplicates(filters[fi + 1], record, order))
    /\ UNCHANGED <<data, rules, fdata, filters, ri, target_track, target_list,
                   emitted, queries, qi, start>>

\* return record
Return ==
    /\ pc = "running"
    /\ ri > Len(rules)
    /\ qi = Len(queries)
    /\ fi = Len(filters)
    /\ pc' = "done"
    /\ UNCHANGED <<data, rules, fdata, filters, ri, target_track, target_list,
                   emitted, queries, record, qi, fi, err, log, start>>

Next == Consume \/ WriteQuery \/ ApplyFilter \/ Return

Spec == Init /\ [][Next]_vars

(***************************************************************************)
(* Properties of the projection                                            *)
(***************************************************************************)
Finished == pc \in {"done", "error"}

HasQuery(path) == Contains(<<"?">>, path)

\* what a read finds where there is nothing
Missing == [t |-> "missing", v |-> <<>>]

\* the value of rec at a path of keys and indices; segs are its segments
RECURSIVE ValueAt(_, _)
ValueAt(rec, segs) ==
    IF Len(segs) = 0 THEN rec
    ELSE IF rec.t # "dict" \/ ~DictHas(rec, segs[1].key) THEN Missing
    ELSE LET val == DictGet(rec, segs[1].key)
         IN  IF segs[1].index = NoneStr THEN ValueAt(val, Tail(segs))
             ELSE IF val.t # "list" \/ Len(val.v) <= StrToInt(segs[1].index)
             THEN Missing
             ELSE ValueAt(val.v[StrToInt(segs[1].index) + 1], Tail(segs))

\* C2: the projection of a single source rule whose source is a flat
\* path and whose target has no query holds the source value at the
\* target path.
C2_PointCopy ==
    (/\ Finished
     /\ Len(rules) = 1
     /\ "source" \in DOMAIN rules[1]
     /\ ~HasQuery(rules[1].target)
     /\ \E k \in 1..Len(fdata) : fdata[k][1] = rules[1].source)
        => /\ pc = "done"
           /\ \E k \in 1..Len(fdata) :
                  /\ fdata[k][1] = rules[1].source
                  /\ ValueAt(record, parse_path(rules[1].target)) = fdata[k][2]

\* the list that the first query segment of a path addresses in rec holds
\* an element that satisfies the query
RECURSIVE HasSatisfying(_, _)
HasSatisfying(rec, segs) ==
    IF Len(segs) = 0 THEN FALSE
    ELSE IF rec.t # "dict" \/ ~DictHas(rec, segs[1].key) THEN FALSE
    ELSE LET val == DictGet(rec, segs[1].key)
         IN  IF segs[1].query # NoneStr
             THEN /\ val.t = "list"
                  /\ \E k \in 1..Len(val.v) :
                         /\ val.v[k].t = "dict"
                         /\ Satisfies(val.v[k], Conditions(segs[1].query))
             ELSE IF segs[1].index = NoneStr
             THEN HasSatisfying(val, Tail(segs))
             ELSE /\ val.t = "list"
                  /\ Len(val.v) > StrToInt(segs[1].index)
                  /\ HasSatisfying(val.v[StrToInt(segs[1].index) + 1],
                                   Tail(segs))

\* C4: for every manifest entry whose path has a query, the returned
\* document holds, in the list the path addresses, an element that
\* satisfies the query.
C4_QueryExistence ==
    pc = "done"
        => \A n \in 1..Len(emitted) :
               HasQuery(emitted[n].path)
                   => HasSatisfying(record, parse_path(emitted[n].path))

\* C9: when the rules emit no entry, get_projection returns {}.
C9_EmptyResult ==
    (pc = "done" /\ emitted = <<>>) => record = EmptyDict

\* the calls of the writer with operation op, in order
CallsOf(op) == SelectSeq(log, LAMBDA c : c.op = op)

\* calls are the calls for the first entries of ents, in order
WritesOf(calls, ents) ==
    /\ Len(calls) <= Len(ents)
    /\ \A n \in 1..Len(calls) :
           calls[n].path = ents[n].path /\ calls[n].value = ents[n].value

Pass(call) ==
    IF call.op = "insert_value" THEN 1
    ELSE IF call.op = "insert_query" THEN 2 ELSE 3

\* C10: every entry without a query is written before any entry with a
\* query, each group in manifest order, and the filters are applied only
\* after every entry was written.
C10_TwoPasses ==
    LET plain == SelectSeq(emitted, LAMBDA e : ~HasQuery(e.path))
        query == SelectSeq(emitted, LAMBDA e : HasQuery(e.path))
    IN  /\ WritesOf(CallsOf("insert_value"), plain)
        /\ WritesOf(CallsOf("insert_query"), query)
        /\ \A i, j \in 1..Len(log) : i < j => Pass(log[i]) <= Pass(log[j])
        /\ CallsOf("insert_query") # <<>>
               => ri > Len(rules) /\ Len(CallsOf("insert_value")) = Len(plain)
        /\ CallsOf("remove_duplicates") # <<>>
               => /\ ri > Len(rules)
                  /\ Len(CallsOf("insert_value")) = Len(plain)
                  /\ Len(CallsOf("insert_query")) = Len(query)
        /\ pc = "done"
               => Len(CallsOf("insert_value")) + Len(CallsOf("insert_query"))
                      = Len(emitted)

\* witness of C10: a returned projection for which an entry with a query
\* came before an entry without one in the manifest, and a filter ran
C10_Witness ==
    /\ pc = "done"
    /\ \E i, j \in 1..Len(emitted) :
           i < j /\ HasQuery(emitted[i].path) /\ ~HasQuery(emitted[j].path)
    /\ CallsOf("remove_duplicates") # <<>>

S_t == <<".", "t">>
S_a == <<".", "a">>
Q_ax == <<"[", "?", "(", "@", ".", "a", "=", "=", "'", "x", "'", ")", "]">>
P_o1 == <<"$", ".", "o", "[", "1", "]">>

\* elements of a list r: one that satisfies t == 'R', one that does
\* not, and one that satisfies it and holds a field n
RElemR == PyDict(<<<<<<"t">>, PyStr(<<"R">>)>>>>)
RElemS == PyDict(<<<<<<"t">>, PyStr(<<"S">>)>>>>)
RElemRn == PyDict(<<<<<<"t">>, PyStr(<<"R">>)>>, <<<<"n">>, PyStr(<<"r", "0">>)>>>>)

\* the records the writer starts from: {} and a list r of mappings
WriterStarts ==
    {EmptyDict}
        \cup {PyDict(<<<<<<"r">>, PyList(l)>>>>) :
                 l \in {<<>>, <<RElemR>>, <<RElemS>>, <<RElemR, RElemRn>>,
                        <<RElemS, RElemR>>, <<RElemR, RElemR>>}}

\* the writes of entries with a query
QueryWrites ==
    {<<P_r \o Q_tR \o S_n, PyStr(<<"r", "1">>)>>,
     <<P_r \o Q_tR \o S_v, PyInt(42)>>,
     <<P_r \o Q_tR \o S_t, PyStr(<<"S">>)>>,
     <<P_r \o Q_ax \o S_t, PyStr(<<"R">>)>>,
     <<P_r \o Q_tR \o <<"[", "1", "]">> \o S_a, PyStr(<<"x">>)>>}

\* the writes of entries without a query
PlainWrites ==
    {<<P_o0, PyStr(<<"x">>)>>, <<P_o1, PyStr(<<"x">>)>>}

FilterPaths == {P_r, P_o}

InitWriter ==
    /\ pc = "writing"
    /\ start \in WriterStarts
    /\ record = start
    /\ data = EmptyDict
    /\ rules = <<>>
    /\ fdata = <<>>
    /\ filters = <<>>
    /\ ri = 1
    /\ target_track = <<>>
    /\ target_list = Unbound
    /\ emitted = <<>>
    /\ queries = <<>>
    /\ qi = 0
    /\ fi = 0
    /\ err = "none"
    /\ log = <<>>

\* the effect of a call with result r on the record and the log
Called(op, path, value, r) ==
    /\ record' = (IF r.ret.t = "dict" THEN r.ret ELSE record)
    /\ log' = Append(log, Call(op, path, value, r.raised))
    /\ IF r.raised # "none"
       THEN pc' = "error" /\ err' = r.raised
       ELSE UNCHANGED <<pc, err>>
    /\ UNCHANGED <<data, rules, fdata, filters, ri, target_track, target_list,
                   emitted, queries, qi, fi, start>>

CallInsertValue ==
    /\ pc = "writing"
    /\ Len(log) < MaxCalls
    /\ \E w \in PlainWrites :
           Called("insert_value", w[1], w[2], insert_value(w[1], w[2], record))

CallInsertQuery ==
    /\ pc = "writing"
    /\ Len(log) < MaxCalls
    /\ \E w \in QueryWrites :
           Called("insert_query", w[1], w[2], insert_query(w[1], w[2], record))

CallRemoveDuplicates ==
    /\ pc = "writing"
    /\ Len(log) < MaxCalls
    /\ \E path \in FilterPaths : \E order \in Orders :
           Called("remove_duplicates", path, PyNone,
                  remove_duplicates(path, record, order))

NextWriter == CallInsertValue \/ CallInsertQuery \/ CallRemoveDuplicates

SpecWriter == InitWriter /\ [][NextWriter]_vars

(***************************************************************************)
(* Properties of the writer                                                *)
(***************************************************************************)
\* path is key[?(query)].field with a field that is no key of the query
InFamily(path, key, query) ==
    LET segs == parse_path(path)
    IN  /\ Len(segs) = 2
        /\ segs[1].key = key /\ segs[1].query = query
        /\ segs[1].index = NoneStr
        /\ segs[2].query = NoneStr /\ segs[2].index = NoneStr
        /\ \A c \in 1..Len(Conditions(query)) :
               Conditions(query)[c][1] # segs[2].key

\* the elements of the list rec[key] that satisfy the conditions
SatisfyingElems(rec, key, conds) ==
    IF ~DictHas(rec, key) \/ DictGet(rec, key).t # "list" THEN {}
    ELSE {k \in 1..Len(DictGet(rec, key).v) :
             /\ DictGet(rec, key).v[k].t = "dict"
             /\ Satisfies(DictGet(rec, key).v[k], conds)}

\* every call so far is an insert_query of one family: the calls have the
\* list key and the query of the first one
OneFamily ==
    /\ log # <<>>
    /\ log[1].op = "insert_query"
    /\ parse_path(log[1].path)[1].query # NoneStr
    /\ \A n \in 1..Len(log) :
           /\ log[n].op = "insert_query"
           /\ InFamily(log[n].path, parse_path(log[1].path)[1].key,
                       parse_path(log[1].path)[1].query)

\* the last value written to field by the calls so far
LastWritten(field) ==
    LET last == CHOOSE n \in 1..Len(log) :
                    /\ parse_path(log[n].path)[2].key = field
                    /\ \A m \in (n + 1)..Len(log) :
                           parse_path(log[m].path)[2].key # field
    IN  log[last].value

\* C3: after insert_query writes that share the list key and a query
\* without index, to fields that are no keys of the query, the list has
\* at least one and at most max(1, the number before) elements that
\* satisfy the query, each of them holds every written field with the
\* value written last, and two such writes into {} leave a list of one
\* element that holds the query's fields and both values.
C3_QueryWritesMerge ==
    OneFamily =>
        LET key == parse_path(log[1].path)[1].key
            conds == Conditions(parse_path(log[1].path)[1].query)
            before == Cardinality(SatisfyingElems(start, key, conds))
            after == SatisfyingElems(record, key, conds)
            lst == DictGet(record, key).v
        IN  /\ \A n \in 1..Len(log) : log[n].raised = "none"
            /\ Cardinality(after) >= 1
            /\ Cardinality(after) <= (IF before > 1 THEN before ELSE 1)
            /\ \A n \in 1..Len(log) : \A k \in after :
                   LET field == parse_path(log[n].path)[2].key
                   IN  /\ DictHas(lst[k], field)
                       /\ DictGet(lst[k], field) = LastWritten(field)
            /\ (start = EmptyDict /\ Len(log) = 2 /\ log[1].path # log[2].path)
                   => /\ Len(record.v) = 1
                      /\ Len(lst) = 1
                      /\ Len(lst[1].v) = Len(conds) + 2

\* witness of C3: two writes of one family into {} left one element with
\* the query's field and both values
C3_Witness ==
    /\ OneFamily
    /\ start = EmptyDict
    /\ Len(log) = 2
    /\ log[1].path # log[2].path
    /\ record = PyDict(<<<<<<"r">>, PyList(<<PyDict(
           <<<<<<"t">>, PyStr(<<"R">>)>>,
             <<parse_path(log[1].path)[2].key, log[1].value>>,
             <<parse_path(log[2].path)[2].key, log[2].value>>>>)>>)>>>>)

\* the set of (key, value) entries of a mapping
Entries(d) == {d.v[k] : k \in 1..Len(d.v)}

\* no two elements of l are duplicates: mappings by their sets of
\* entries, otherwise scalars by their value
NoDuplicates(l) ==
    IF \A k \in 1..Len(l) : l[k].t = "dict"
    THEN \A i, j \in 1..Len(l) : i < j => Entries(l[i]) # Entries(l[j])
    ELSE \A i, j \in 1..Len(l) : i < j => l[i] # l[j]

\* C8: after remove_duplicates for a path, the list at the path holds no
\* two duplicates: no two mappings with the same set of entries (in
\* whatever order their keys were inserted), or no scalar twice.
C8_NoDuplicates ==
    (/\ log # <<>>
     /\ log[Len(log)].op = "remove_duplicates"
     /\ log[Len(log)].raised = "none")
        => LET l == ValueAt(record, parse_path(log[Len(log)].path))
           IN  l.t = "list" /\ NoDuplicates(l.v)

(***************************************************************************)
(* JSONManifest(data) : flattening the data document                       *)
(***************************************************************************)
Scalars == {PyNone, PyInt(1)}

K_a == <<"a">>
K_b1 == <<"b", "_", "1">>

\* the lists of at most max elements of vals
ListsOf(vals, max) == {PyList(l) : l \in UNION {[1..n -> vals] : n \in 0..max}}

\* the mappings of the keys a and b_1, in either order, to elements of
\* first and of second
DictsOf(first, second) ==
    {EmptyDict}
        \cup {PyDict(<<<<k, u>>>>) : k \in {K_a, K_b1}, u \in first}
        \cup {PyDict(<<<<k[1], u>>, <<k[2], v>>>>) :
                 k \in {<<K_a, K_b1>>, <<K_b1, K_a>>}, u \in first, v \in second}

\* scalars, and lists and mappings of scalars
Shallow == Scalars \cup ListsOf(Scalars, MaxElems) \cup DictsOf(Scalars, Scalars)

\* lists of at most two shallow values, and mappings of one key to one
Nested ==
    Shallow
        \cup {PyList(<<u>>) : u \in Shallow}
        \cup {PyList(<<u, v>>) : u \in Shallow, v \in Shallow}
        \cup DictsOf(Shallow, {})

FlattenDocs == DictsOf(Nested, {}) \cup DictsOf(Shallow, Shallow)

InitFlatten ==
    /\ pc = "constructing"
    /\ data \in FlattenDocs
    /\ rules = <<>>
    /\ fdata = <<>>
    /\ filters = <<>>
    /\ ri = 1
    /\ target_track = <<>>
    /\ target_list = Unbound
    /\ emitted = <<>>
    /\ queries = <<>>
    /\ record = EmptyDict
    /\ qi = 0
    /\ fi = 0
    /\ err = "none"
    /\ log = <<>>
    /\ start = EmptyDict

\* self._fdata = dict(self.flatten(self._data))
Flatten ==
    /\ pc = "constructing"
    /\ fdata' = FlatData(data)
    /\ pc' = "flat"
    /\ UNCHANGED <<data, rules, filters, ri, target_track, target_list,
                   emitted, queries, record, qi, fi, err, log, start>>

NextFlatten == Flatten

SpecFlatten == InitFlatten /\ [][NextFlatten]_vars

(***************************************************************************)
(* Properties of the flattener                                             *)
(***************************************************************************)
IsLeaf(val) == val.t \notin {"dict", "list"}

\* the number of scalar leaves of val
RECURSIVE CountLeaves(_), CountLeavesFrom(_, _)
CountLeaves(val) == IF IsLeaf(val) THEN 1 ELSE CountLeavesFrom(val, 1)

CountLeavesFrom(val, i) ==
    IF i > Len(val.v) THEN 0
    ELSE CountLeaves(IF val.t = "dict" THEN val.v[i][2] ELSE val.v[i])
            + CountLeavesFrom(val, i + 1)

KeyStep(key) == [key |-> key]

IndexStep(n) == [index |-> n]

BadStep == [bad |-> TRUE]

\* the steps of "[i][j]...", the text after the key of a path segment
RECURSIVE IndexSteps(_)
IndexSteps(s) ==
    IF s = <<>> THEN <<>>
    ELSE LET e == RunEnd(s, 2, IsDigit)
         IN  IF s[1] = "[" /\ e >= 2 /\ e < Len(s) /\ s[e + 1] = "]"
             THEN <<IndexStep(StrToInt(SubSeq(s, 2, e)))>>
                      \o IndexSteps(SubSeq(s, e + 2, Len(s)))
             ELSE <<BadStep>>

\* the steps of a path segment key[i][j]...
SegmentSteps(seg) ==
    LET b == Find(seg, <<"[">>, 1)
    IN  IF b = 0 THEN <<KeyStep(seg)>>
        ELSE <<KeyStep(SubSeq(seg, 1, b - 1))>>
                 \o IndexSteps(SubSeq(seg, b, Len(seg)))

RECURSIVE SegmentsSteps(_)
SegmentsSteps(segs) ==
    IF segs = <<>> THEN <<>>
    ELSE SegmentSteps(segs[1]) \o SegmentsSteps(Tail(segs))

\* the keys and list indices a flat path spells after its root $
PathSteps(path) ==
    LET segs == Split(path, <<".">>)
    IN  IF segs[1] # <<"$">> THEN <<BadStep>> ELSE SegmentsSteps(Tail(segs))

\* the value the steps lead to in val
RECURSIVE Follow(_, _)
Follow(val, steps) ==
    IF steps = <<>> THEN val
    ELSE IF "key" \in DOMAIN steps[1]
    THEN IF val.t = "dict" /\ DictHas(val, steps[1].key)
         THEN Follow(DictGet(val, steps[1].key), Tail(steps))
         ELSE Missing
    ELSE IF "index" \in DOMAIN steps[1]
    THEN IF val.t = "list" /\ steps[1].index < Len(val.v)
         THEN Follow(val.v[steps[1].index + 1], Tail(steps))
         ELSE Missing
    ELSE Missing

\* the position of each step among the items of the value it is taken in
RECURSIVE Ordinals(_, _)
Ordinals(val, steps) ==
    IF steps = <<>> THEN <<>>
    ELSE IF "key" \in DOMAIN steps[1]
    THEN <<CHOOSE i \in 1..Len(val.v) : val.v[i][1] = steps[1].key>>
             \o Ordinals(DictGet(val, steps[1].key), Tail(steps))
    ELSE <<steps[1].index + 1>>
             \o Ordinals(val.v[steps[1].index + 1], Tail(steps))

\* a comes before b in depth-first order
RECURSIVE Before(_, _)
Before(a, b) ==
    /\ a # <<>> /\ b # <<>>
    /\ \/ a[1] < b[1]
       \/ a[1] = b[1] /\ Before(Tail(a), Tail(b))

\* the key of a step follows the key grammar [A-Za-z_][A-Za-z0-9_]*
GrammarKey(key) ==
    /\ key # <<>>
    /\ ~IsDigit(key[1])
    /\ \A i \in 1..Len(key) : IsWord(key[i])

\* pairs are the flat pairs of doc: one for each scalar leaf, with the
\* path that leads to it, in depth-first order
FlatPairsOf(doc, pairs) ==
    /\ Len(pairs) = CountLeaves(doc)
    /\ \A k \in 1..Len(pairs) :
           /\ pairs[k][1][1] = "$"
           /\ IsLeaf(pairs[k][2])
           /\ Follow(doc, PathSteps(pairs[k][1])) = pairs[k][2]
           /\ \A n \in 1..Len(PathSteps(pairs[k][1])) :
                  "key" \in DOMAIN PathSteps(pairs[k][1])[n]
                      => GrammarKey(PathSteps(pairs[k][1])[n].key)
    /\ \A j, k \in 1..Len(pairs) :
           j < k => /\ pairs[j][1] # pairs[k][1]
                    /\ Before(Ordinals(doc, PathSteps(pairs[j][1])),
                              Ordinals(doc, PathSteps(pairs[k][1])))

\* C12: flatten yields exactly one (path, value) pair for each scalar
\* leaf of the document (null included); the paths of distinct leaves are
\* distinct; each path starts with $ and spells the keys and [i] list
\* indices from the root to its leaf; the pairs come in depth-first
\* order; and empty mappings and empty lists yield no pair.
C12_FlattenerTotality ==
    pc = "flat" => FlatPairsOf(data, flatten(data)) /\ fdata = flatten(data)

\* witness of C12: the flattened document {"a": [[null, 1], {}]}, with a
\* null leaf, scalars in a list inside a list, and an empty mapping
C12_Witness ==
    /\ pc = "flat"
    /\ data = PyDict(<<<<K_a, PyList(<<PyList(<<PyNone, PyInt(1)>>),
                                        EmptyDict>>)>>>>)
    /\ fdata = <<<<<<"$", ".", "a", "[", "0", "]", "[", "0", "]">>, PyNone>>,
                 <<<<"$", ".", "a", "[", "0", "]", "[", "1", "]">>, PyInt(1)>>>>

(***************************************************************************)
(* handler.py : process_app_rules(loan, rules), then the manifest and the  *)
(* projection of the loan, as main does for each loan                      *)
(***************************************************************************)
K_applications == <<"a", "p", "p", "l", "i", "c", "a", "t", "i", "o", "n", "s">>
K_borrower == <<"b", "o", "r", "r", "o", "w", "e", "r">>
K_coborrower == <<"c", "o", "b", "o", "r", "r", "o", "w", "e", "r">>
K_mailingAddress == <<"m", "a", "i", "l", "i", "n", "g", "A", "d", "d", "r", "e", "s", "s">>
K_shared_address == <<"s", "h", "a", "r", "e", "d", "_", "a", "d", "d", "r", "e", "s", "s">>
K_reports == <<"r", "e", "p", "o", "r", "t", "s">>
K_residences == <<"r", "e", "s", "i", "d", "e", "n", "c", "e", "s">>
K_title == <<"t", "i", "t", "l", "e">>

\* the names of the address fields in the loan and in the report
AddressFields ==
    <<<<<<"a", "d", "d", "r", "e", "s", "s", "S", "t", "r", "e", "e", "t", "L", "i", "n", "e", "1">>,
        <<"s", "t", "r", "e", "e", "t">>>>,
      <<<<"a", "d", "d", "r", "e", "s", "s", "C", "i", "t", "y">>,
        <<"c", "i", "t", "y">>>>,
      <<<<"a", "d", "d", "r", "e", "s", "s", "S", "t", "a", "t", "e">>,
        <<"s", "t", "a", "t", "e">>>>,
      <<<<"a", "d", "d", "r", "e", "s", "s", "P", "o", "s", "t", "a", "l", "C", "o", "d", "e">>,
        <<"z", "i", "p">>>>>>

T_ResidencesReport ==
    <<"R", "e", "s", "i", "d", "e", "n", "c", "e", "s", " ", "R", "e", "p",
      "o", "r", "t">>

T_BorrowersReport ==
    <<"B", "o", "r", "r", "o", "w", "e", "r", "s", " ", "R", "e", "p", "o",
      "r", "t">>

\* $.reports[?(@.title == '<title>')]
ReportPath(title) ==
    <<"$", ".", "r", "e", "p", "o", "r", "t", "s", "[", "?", "(", "@", ".", "t", "i", "t", "l", "e", " ", "=", "=", " ">>
        \o <<"'">> \o title \o <<"'", ")", "]">>

\* f"$.applications[{app_idx}].{borrower}.mailingAddress.{field}"
AddressSource(app_idx, borrower, field) ==
    <<"$", ".">> \o K_applications \o <<"[">> \o IntToStr(app_idx)
        \o <<"]", ".">> \o borrower \o <<".">> \o K_mailingAddress
        \o <<".">> \o field

\* f"$.reports[?(@.title == 'Residences Report')].residences[{residence_idx}].{field}"
ResidenceTarget(residence_idx, field) ==
    ReportPath(T_ResidencesReport) \o <<".">> \o K_residences \o <<"[">>
        \o IntToStr(residence_idx) \o <<"]", ".">> \o field

\* the list addAddressRules returns, or the ValueError it raises
addAddressRules(app_idx, residence_idx, borrower) ==
    IF borrower \in {K_borrower, K_coborrower}
    THEN Result([n \in 1..Len(AddressFields) |->
                    SourceRule(AddressSource(app_idx, borrower,
                                             AddressFields[n][1]),
                               ResidenceTarget(residence_idx,
                                               AddressFields[n][2]))],
                "none")
    ELSE Result(<<>>, "ValueError")

\* the loan and the rules a handler function leaves, and the exception it
\* raised, if any
Handled(loan, rs, raised) == [loan |-> loan, rules |-> rs, raised |-> raised]

\* loan["applications"][app]
Application(loan, app) == DictGet(loan, K_applications).v[app + 1]

\* loan["applications"][app]["shared_address"] = True
SetSharedAddress(loan, app) ==
    DictSet(loan, K_applications,
            PyList([DictGet(loan, K_applications).v EXCEPT ![app + 1] =
                       DictSet(@, K_shared_address, PyBool(TRUE))]))

\* rules += addAddressRules(app, app, "coborrower")
AddCoborrower(loan, rs, added) ==
    IF added.raised # "none" THEN Handled(loan, rs, added.raised)
    ELSE Handled(loan, rs \o added.ret, "none")

\* CompareAddresses setting the flag of every application it compares
CompareAddressesAlwaysShared(loan, app, rs, borrower, coborrower) ==
    IF ~DictHas(borrower, K_mailingAddress)
           \/ ~DictHas(coborrower, K_mailingAddress)
    THEN Handled(loan, rs, "KeyError")
    ELSE IF PyEq(DictGet(borrower, K_mailingAddress),
                 DictGet(coborrower, K_mailingAddress))
    THEN Handled(SetSharedAddress(loan, app), rs, "none")
    ELSE AddCoborrower(SetSharedAddress(loan, app), rs,
                       addAddressRules(app, app, K_coborrower))

\* check_borrower_addresses from the comparison of the mailing addresses
CompareAddresses(loan, app, rs, borrower, coborrower) ==
    IF ~DictHas(borrower, K_mailingAddress)
           \/ ~DictHas(coborrower, K_mailingAddress)
    THEN Handled(loan, rs, "KeyError")
    ELSE IF PyEq(DictGet(borrower, K_mailingAddress),
                 DictGet(coborrower, K_mailingAddress))
    THEN Handled(SetSharedAddress(loan, app), rs, "none")
    ELSE AddCoborrower(loan, rs, addAddressRules(app, app, K_coborrower))

check_borrower_addresses(loan, app, rs) ==
    IF ~DictHas(Application(loan, app), K_borrower)
           \/ ~DictHas(Application(loan, app), K_coborrower)
    THEN Handled(loan, rs, "KeyError")
    ELSE CompareAddresses(loan, app, rs,
                          DictGet(Application(loan, app), K_borrower),
                          DictGet(Application(loan, app), K_coborrower))

\* "for app in range(len(loan["applications"]))" from app on; n is the
\* length the loop started with
RECURSIVE ProcessApps(_, _, _)
ProcessApps(h, app, n) ==
    IF app >= n \/ h.raised # "none" THEN h
    ELSE ProcessApps(check_borrower_addresses(h.loan, app, h.rules),
                     app + 1, n)

process_app_rules(loan, rs) ==
    IF ~DictHas(loan, K_applications) THEN Handled(loan, rs, "KeyError")
    ELSE ProcessApps(Handled(loan, rs, "none"), 0,
                     Len(DictGet(loan, K_applications).v))

\* a mailing address
Address(street, city, state, zip) ==
    PyDict(<<<<AddressFields[1][1], PyStr(street)>>,
             <<AddressFields[2][1], PyStr(city)>>,
             <<AddressFields[3][1], PyStr(state)>>,
             <<AddressFields[4][1], PyStr(zip)>>>>)

Primary == Address(<<"1">>, <<"C">>, <<"T">>, <<"5">>)

\* the primary address with its fields in another order
PrimaryReordered ==
    PyDict(<<Primary.v[4], Primary.v[3], Primary.v[2], Primary.v[1]>>)

\* the primary address and the addresses that differ from it in one field
Addresses ==
    {Primary,
     PrimaryReordered,
     Address(<<"2">>, <<"C">>, <<"T">>, <<"5">>),
     Address(<<"1">>, <<"D">>, <<"T">>, <<"5">>),
     Address(<<"1">>, <<"C">>, <<"U">>, <<"5">>),
     Address(<<"1">>, <<"C">>, <<"T">>, <<"6">>)}

\* the shared_address an application comes with: the default False, or
\* PyNone for none at all
Flags == {PyNone, PyBool(FALSE)}

Borrower(address) == PyDict(<<<<K_mailingAddress, address>>>>)

App(borrower, coborrower, flag) ==
    PyDict(<<<<K_borrower, Borrower(borrower)>>,
             <<K_coborrower, Borrower(coborrower)>>>>
               \o (IF flag = PyNone THEN <<>>
                   ELSE <<<<K_shared_address, flag>>>>))

Loan(apps) == PyDict(<<<<K_applications, PyList(apps)>>>>)

\* loans of one application, loans of two, a loan whose application has no
\* coborrower and a loan without applications
Loans ==
    {Loan(<<App(Primary, c, f)>>) : c \in Addresses, f \in Flags}
        \cup {Loan(<<App(Primary, c, PyNone),
                     App(Primary, d, PyBool(FALSE))>>) :
                 c \in {Primary, Address(<<"2">>, <<"C">>, <<"T">>, <<"5">>)},
                 d \in {Primary, Address(<<"1">>, <<"D">>, <<"T">>, <<"5">>)}}
        \cup {Loan(<<PyDict(<<<<K_borrower, Borrower(Primary)>>>>)>>),
              EmptyDict}

\* the rules the service loaded: the primary borrower's address goes to
\* residences[0] of the Residences Report and the flag of the application
\* to the Borrowers Report
BaseRules ==
    addAddressRules(0, 0, K_borrower).ret
        \o <<SourceRule(<<"$", ".">> \o K_applications \o <<"[", "0", "]", ".">>
                            \o K_shared_address,
                        ReportPath(T_BorrowersReport) \o <<".">>
                            \o K_shared_address)>>

\* the same with a filter of the residences
LoadedRules ==
    {BaseRules,
     BaseRules \o <<FilterRule(ReportPath(T_ResidencesReport) \o <<".">>
                                  \o K_residences)>>}

InitHandler ==
    /\ pc = "processing"
    /\ data \in Loans
    /\ rules \in LoadedRules
    /\ fdata = <<>>
    /\ filters = <<>>
    /\ ri = 1
    /\ target_track = <<>>
    /\ target_list = Unbound
    /\ emitted = <<>>
    /\ queries = <<>>
    /\ record = EmptyDict
    /\ qi = 0
    /\ fi = 0
    /\ err = "none"
    /\ log = <<>>
    /\ start = EmptyDict

\* main after process_app_rules left h
AppRulesProcessed(h) ==
    /\ data' = h.loan
    /\ rules' = h.rules
    /\ IF h.raised # "none"
       THEN pc' = "error" /\ err' = h.raised
       ELSE pc' = "processed" /\ UNCHANGED err

\* rules = process_app_rules(loan, rules)
ProcessAppRules ==
    /\ pc = "processing"
    /\ AppRulesProcessed(process_app_rules(data, rules))
    /\ UNCHANGED <<fdata, filters, ri, target_track, target_list, emitted,
                   queries, record, qi, fi, log, start>>

\* manifest = JSONManifest(loan, rules)
BuildManifest ==
    /\ pc = "processed"
    /\ fdata' = FlatData(data)
    /\ filters' = find_filters(rules)
    /\ pc' = "running"
    /\ UNCHANGED <<data, rules, ri, target_track, target_list, emitted,
                   queries, record, qi, fi, err, log, start>>

\* then projection = JSONFactory(manifest).get_projection()
NextHandler ==
    \/ ProcessAppRules
    \/ BuildManifest
    \/ Consume
    \/ WriteQuery
    \/ ApplyFilter
    \/ Return

SpecHandler == InitHandler /\ [][NextHandler]_vars

(***************************************************************************)
(* Properties of the handler                                               *)
(***************************************************************************)
Applications == DictGet(data, K_applications).v

\* process_app_rules has returned
AppRulesReturned == pc \in {"processed", "running", "done"}

\* the application's shared_address is True
SharedAddressTrue(app) ==
    /\ DictHas(app, K_shared_address)
    /\ DictGet(app, K_shared_address) = PyBool(TRUE)

\* the application's borrower and coborrower have equal mailing addresses
SameMailingAddress(app) ==
    PyEq(DictGet(DictGet(app, K_borrower), K_mailingAddress),
         DictGet(DictGet(app, K_coborrower), K_mailingAddress))

\* the reports of the projection with the given title
ReportsTitled(title) ==
    IF ~DictHas(record, K_reports) THEN <<>>
    ELSE SelectSeq(DictGet(record, K_reports).v,
                   LAMBDA r : /\ DictHas(r, K_title)
                              /\ DictGet(r, K_title) = PyStr(title))

CoborrowerRules ==
    SelectSeq(rules, LAMBDA r : /\ "source" \in DOMAIN r
                                /\ Contains(<<".">> \o K_coborrower \o <<".">>,
                                            r.source))

\* the residence index of the target of an address rule
ResidenceIndex(rule) == parse_path(rule.target)[2].index

\* the residences of the Residences Report of the projection
Residences ==
    DictGet(ReportsTitled(T_ResidencesReport)[1], K_residences).v

\* the residence the address rules write for a mailing address
ResidenceOf(address) ==
    PyDict([n \in 1..Len(AddressFields) |->
               <<AddressFields[n][2], DictGet(address, AddressFields[n][1])>>])

\* C14: for a loan of one application and base rules that write the
\* borrower's mailing address to residences[0] of the Residences Report:
\* when the mailing addresses of borrower and coborrower differ, the
\* coborrower rules are added at a residence index other than the
\* borrower's and the projected report has two residences, one for each
\* address; when they are equal no coborrower rule is added and the report
\* has exactly one residence.
C14_ResidencesOfOneApplication ==
    (pc = "done" /\ Len(Applications) = 1) =>
        LET borrower == DictGet(DictGet(Applications[1], K_borrower),
                                K_mailingAddress)
            coborrower == DictGet(DictGet(Applications[1], K_coborrower),
                                  K_mailingAddress)
        IN  /\ Len(ReportsTitled(T_ResidencesReport)) = 1
            /\ IF SameMailingAddress(Applications[1])
               THEN /\ CoborrowerRules = <<>>
                    /\ Len(Residences) = 1
                    /\ PyEq(Residences[1], ResidenceOf(borrower))
               ELSE /\ Len(CoborrowerRules) = Len(AddressFields)
                    /\ \A n \in 1..Len(CoborrowerRules) :
                           ResidenceIndex(CoborrowerRules[n]) # <<"0">>
                    /\ Len(Residences) = 2
                    /\ \E i, j \in 1..2 :
                           /\ i # j
                           /\ PyEq(Residences[i], ResidenceOf(borrower))
                           /\ PyEq(Residences[j], ResidenceOf(coborrower))

(***************************************************************************)
(* One call of JSONFactory.insert_query or remove_duplicates for a path    *)
(* whose list segment carries a query                                      *)
(***************************************************************************)
Q_y2 == <<"[", "?", "(", "@", ".", "y", "=", "=", "2", ")", "]">>
Q_y2s == <<"[", "?", "(", "@", ".", "y", "=", "=", "'", "2", "'", ")", "]">>
Q_tRuS ==
    <<"[", "?", "(", "@", ".", "t", "=", "=", "'", "R", "'", " ", "&", "&", " ">>
        \o <<"@", ".", "u", "=", "=", "'", "S", "'", ")", "]">>

\* elements whose field y holds the integer 2 and the string '2', and one
\* that satisfies t == 'R' && u == 'S'
YElemInt == PyDict(<<<<<<"y">>, PyInt(2)>>>>)
YElemStr == PyDict(<<<<<<"y">>, PyStr(<<"2">>)>>>>)
RElemRuS == PyDict(<<<<<<"t">>, PyStr(<<"R">>)>>, <<<<"u">>, PyStr(<<"S">>)>>>>)

QueryElems == {RElemR, RElemS, RElemRn, RElemRuS, YElemInt, YElemStr}

\* the records of a call: {} and a list r of at most MaxElems mappings
QueryStarts ==
    {EmptyDict}
        \cup {PyDict(<<<<<<"r">>, PyList(l)>>>>) :
                 l \in UNION {[1..n -> QueryElems] : n \in 0..MaxElems}}

\* writes to a field of the elements a query finds, of the element a
\* query and an index find, and to the elements themselves
SegmentWrites ==
    {<<P_r \o Q_y2 \o S_n, PyStr(<<"v">>)>>,
     <<P_r \o Q_y2s \o S_n, PyStr(<<"v">>)>>,
     <<P_r \o Q_tR \o S_n, PyStr(<<"v">>)>>,
     <<P_r \o Q_tR \o <<"[", "0", "]">> \o S_a, PyStr(<<"x">>)>>,
     <<P_r \o Q_tR \o <<"[", "1", "]">> \o S_a, PyStr(<<"x">>)>>,
     <<P_r \o Q_tR \o <<"[", "2", "]">> \o S_a, PyStr(<<"x">>)>>,
     <<P_r \o Q_tRuS \o <<"[", "1", "]">> \o S_n, PyInt(42)>>,
     <<P_r \o Q_y2 \o <<"[", "0", "]">> \o S_n, PyStr(<<"v">>)>>,
     <<P_r \o Q_tR, PyStr(<<"x">>)>>,
     <<P_r \o Q_y2s, PyInt(42)>>}

SegmentFilters == {P_r \o Q_tR, P_r \o Q_tRuS}

InitSegment ==
    /\ pc = "writing"
    /\ start \in QueryStarts
    /\ record = start
    /\ data = EmptyDict
    /\ rules = <<>>
    /\ fdata = <<>>
    /\ filters = <<>>
    /\ ri = 1
    /\ target_track = <<>>
    /\ target_list = Unbound
    /\ emitted = <<>>
    /\ queries = <<>>
    /\ qi = 0
    /\ fi = 0
    /\ err = "none"
    /\ log = <<>>

\* insert_query(path, value, record)
SegmentInsertQuery ==
    /\ pc = "writing"
    /\ log = <<>>
    /\ \E w \in SegmentWrites :
           Called("insert_query", w[1], w[2], insert_query(w[1], w[2], record))

\* remove_duplicates(path, record)
SegmentRemoveDuplicates ==
    /\ pc = "writing"
    /\ log = <<>>
    /\ \E path \in SegmentFilters : \E order \in Orders :
           Called("remove_duplicates", path, PyNone,
                  remove_duplicates(path, record, order))

NextSegment == SegmentInsertQuery \/ SegmentRemoveDuplicates

SpecSegment == InitSegment /\ [][NextSegment]_vars

(***************************************************************************)
(* Properties of a call for a path with a query                            *)
(***************************************************************************)
\* the value a literal of a predicate denotes: a quoted literal its text,
\* a run of digits the integer
TypedLiteral(text) ==
    IF IsQuote(text[1]) THEN PyStr(Strip(SubSeq(text, 2, Len(text) - 1)))
    ELSE IF \A i \in 1..Len(text) : IsDigit(text[i])
    THEN PyInt(StrToInt(text))
    ELSE IF text = <<"n", "u", "l", "l">> THEN PyNone
    ELSE PyBool(text = <<"t", "r", "u", "e">>)

\* the (key, value) pair of the predicate "@.key == literal"
TypedCondition(pred) ==
    <<Remove(Strip(Split(pred, <<"=", "=">>)[1]), <<"@", ".">>),
      TypedLiteral(Strip(Split(pred, <<"=", "=">>)[2]))>>

\* the (key, value) pairs of the predicates of the query "?( ... )"
TypedConditions(query) ==
    {TypedCondition(pred) :
        pred \in {Split(SubSeq(query, 3, Len(query) - 1), <<"&", "&">>)[n] :
                     n \in 1..Len(Split(SubSeq(query, 3, Len(query) - 1),
                                        <<"&", "&">>))}}

\* the element holds every pair
Holds(ele, pairs) ==
    /\ ele.t = "dict"
    /\ \A c \in pairs : DictHas(ele, c[1]) /\ DictGet(ele, c[1]) = c[2]

\* the one call made, the segments of its path, and the list its first
\* segment names before and after the call
TheCall == log[1]

CallSegments == parse_path(TheCall.path)

ListBefore ==
    IF DictHas(start, CallSegments[1].key)
    THEN DictGet(start, CallSegments[1].key).v ELSE <<>>

ListAfter == DictGet(record, CallSegments[1].key).v

\* the positions of the elements of lst that hold every pair
Holding(lst, pairs) == {k \in 1..Len(lst) : Holds(lst[k], pairs)}

\* the call wrote a field, which is no key of the query, of the elements
\* of a list segment with a query
FieldWrite ==
    /\ Len(log) = 1
    /\ TheCall.op = "insert_query"
    /\ Len(CallSegments) = 2
    /\ CallSegments[1].query # NoneStr
    /\ CallSegments[2].query = NoneStr /\ CallSegments[2].index = NoneStr
    /\ \A c \in TypedConditions(CallSegments[1].query) :
           c[1] # CallSegments[2].key

\* the mapping of the pairs and, when written, of the field of the call
Fresh(pairs, written) ==
    pairs \cup (IF written THEN {<<CallSegments[2].key, TheCall.value>>}
                ELSE {})

\* C15: a query write whose predicate has an integer literal finds the
\* list elements whose field holds that integer and writes into them
\* without appending; when none holds it, the placeholder appended holds
\* the integer; a quoted literal is compared, and kept, as a string.
C15_PredicateLiteralTyping ==
    (FieldWrite /\ CallSegments[1].index = NoneStr) =>
        LET pairs == TypedConditions(CallSegments[1].query)
            hits == Holding(ListBefore, pairs)
        IN  /\ TheCall.raised = "none"
            /\ IF hits # {}
               THEN /\ Len(ListAfter) = Len(ListBefore)
                    /\ \A k \in 1..Len(ListBefore) :
                           ListAfter[k] =
                               IF k \in hits
                               THEN DictSet(ListBefore[k],
                                            CallSegments[2].key, TheCall.value)
                               ELSE ListBefore[k]
               ELSE /\ Len(ListAfter) = Len(ListBefore) + 1
                    /\ SubSeq(ListAfter, 1, Len(ListBefore)) = ListBefore
                    /\ Entries(ListAfter[Len(ListAfter)]) = Fresh(pairs, TRUE)

\* the literals of the query of the call are quoted
QuotedLiterals ==
    \A c \in TypedConditions(CallSegments[1].query) : c[2].t = "str"

TerminalQuery ==
    /\ Len(log) = 1
    /\ Len(CallSegments) = 1
    /\ CallSegments[1].query # NoneStr
    /\ CallSegments[1].index = NoneStr

\* C18: for a path whose last segment has a query and no index, the call
\* completes without raising; the write replaces each element that
\* satisfies the query by the value, or the placeholder appended when none
\* does, and leaves the other elements.
C18_TerminalQuery ==
    TerminalQuery =>
        LET pairs == TypedConditions(CallSegments[1].query)
            hits == Holding(ListBefore, pairs)
        IN  /\ TheCall.raised = "none"
            /\ pc # "error"
            /\ TheCall.op = "insert_query"
                   => /\ Len(ListAfter)
                             = Len(ListBefore) + (IF hits = {} THEN 1 ELSE 0)
                      /\ \A k \in 1..Len(ListAfter) :
                             ListAfter[k] =
                                 IF k \in hits \/ k > Len(ListBefore)
                                 THEN TheCall.value ELSE ListBefore[k]

====
